---- MODULE Spec2Model ----
(***************************************************************************)
(* The rule-evaluation engine of put_your_phone_away (src/engine.py) with  *)
(* the providers of src/concepts.py it is exercised with: an event-sourced *)
(* per-flow log, pattern matching over the most recent records, and the    *)
(* fixpoint evaluator with its per-flow emitted-set.                       *)
(*                                                                         *)
(* Every thread runs Engine.invoke; a rule effect calls invoke again on    *)
(* the same thread, so each thread carries a stack of activations, one per *)
(* invoke that has not returned yet.  The engine lock is a variable, the   *)
(* code between two lock operations is one step.                           *)
(***************************************************************************)
EXTENDS Integers, Sequences, FiniteSets, TLC

VARIABLES
    phase,      \* "setup" while build_engine registers, then "run"
    cfg,        \* which rule set this run registers (0 = mixed, k >= 1 = ring of k)
    concepts,   \* Engine.concepts: provider name -> provider class
    syncs,      \* Engine.syncs: the rules, in registration order
    flow_log,   \* Engine.flow_log: flow token -> sequence of ActionRecords
    emitted,    \* Engine._emitted: flow token -> set of canonical keys
    lock,       \* Engine._lock: the thread holding it, or NoThread
    clock,      \* the wall clock read by ActionRecord's default t
    prov,       \* the providers' own state (Counter.value)
    stack,      \* per thread: the invoke activations that have not returned
    result,     \* per thread: how its last top-level invoke ended
    fired,      \* history: <<flow, key>> -> number of invokes made by rule evaluation
    calls,      \* history: number of top-level calls started
    registered, \* history: the register_concept calls made, <<name, class>> each
    overlapped, \* history: the threads whose last call ran while another did
    assign      \* one call of Associator.assign: its inputs, locals and result

vars == <<phase, cfg, concepts, syncs, flow_log, emitted, lock, clock, prov,
          stack, result, fired, calls, registered, overlapped, assign>>

----------------------------------------------------------------------------
(* Bounds of the model *)

\* largest ring of mutually triggering rules
MaxK == 2
\* top-level invokes per run
MaxCalls == 2
\* flows a run may open
MaxFlows == 2
\* last clock value; the clock stops advancing there
MaxClock == 1
\* the pass counters of the history stop counting there
PassCap == 9
\* boxes in the detections given to Associator.assign
MaxBoxes == 4

Threads == {"t1", "t2"}
NoThread == "none"

----------------------------------------------------------------------------
(* Python values.  Every value is a triple <<type, number, text>> so that    *)
(* any two values can be compared.  A string is kept as (does it start with *)
(* '$', the text after that first character or the whole text).            *)

I(n) == <<"int", n, "">>
B(b) == <<"bool", b, "">>
S(s) == <<"str", 0, s>>
Sigil(s) == <<"str", 1, s>>
L(n) == <<"list", n, "">>
Obj(r) == <<"obj", 0, r>>
NoneV == <<"none", 0, "">>

\* str(uuid4()): the n-th handle a provider has made of one kind
Uuid(kind, n) == <<"uuid", n, kind>>
\* the numpy array Camera.capture read for frame n; str() of it shows its
\* corner elements only
Img(n) == <<"img", n, "corners">>
\* the bytes cv2.imencode makes of a picture (of which kind, of which handle)
Jpeg(kind, n) == <<"bytes", n, kind>>
\* a float constant, by its text
F(text) == <<"float", 0, text>>
\* a dict with one key: {key: v}
Dict1(key, v) == <<"dict", v, key>>
\* a callback given to API.request: n = 1 for one that raises when called
Callback(n) == <<"callable", n, "cb">>
\* html_template with __N__ replaced by str(n) and __TS__ by str(ts): the
\* page of Index_then as a str
Html(n, ts) == <<"str", <<n, ts>>, "html">>
\* the page inside an effect producer, before fr.get('n') and time.time()
\* are read
HtmlOf(name) == <<"tmpl", 0, name>>

\* a variable reference inside an effect producer: fr.get(name)
FrGet(name) == <<"var", 0, name>>

IsNumber(v) == v[1] \in {"int", "bool"}

\* Python ==: bool is an int subtype, True == 1
PyEq(a, b) == IF IsNumber(a) /\ IsNumber(b) THEN a[2] = b[2] ELSE a = b

\* isinstance(expected, str) and expected.startswith("$")
IsPlaceholder(term) == term[1] = "str" /\ term[2] = 1

\* expected[1:]
VarOf(term) == term[3]

\* dict.get(k): None when the key is absent
DictGet(d, k) == IF k \in DOMAIN d THEN d[k] ELSE NoneV

EmptyDict == [k \in {} |-> NoneV]

\* d[k] = v
DictSet(d, k, v) == (k :> v) @@ d

\* json.dumps(value, default=str) of one value: an object is written as the
\* string str(object), a bool as true/false, None as null
JsonVal(v) ==
    CASE v[1] = "int"  -> <<"num", v[2], "">>
      [] v[1] = "bool" -> <<"lit", v[2], "">>
      [] v[1] = "none" -> <<"lit", 2, "">>
      [] v[1] = "str"  -> <<"str", v[2], v[3]>>
      [] v[1] = "list" -> <<"arr", v[2], "">>
      [] v[1] = "obj"  -> <<"str", 0, v[3]>>
      [] v[1] = "img"  -> <<"str", 0, v[3]>>
      [] OTHER         -> v

\* json.dumps(params, sort_keys=True, default=str): the text is determined by
\* the key -> written value mapping, whatever the insertion order
JsonDumps(params) == [k \in DOMAIN params |-> JsonVal(params[k])]

\* key = (concept, action, json.dumps(params, ...))
CanonKey(concept, action, params) == <<concept, action, JsonDumps(params)>>

----------------------------------------------------------------------------
(* Providers (src/concepts.py) *)

\* the operations getattr finds on each provider class
ActionsOf(class) ==
    CASE class = "Ticker"  -> {"tick"}
      [] class = "Counter" -> {"update"}
      [] class = "Camera"  -> {"capture"}
      [] class \in {"Detector", "StubDetector"} -> {"detect"}
      [] class = "Associator" -> {"assign"}
      [] class = "Renderer" -> {"render"}
      [] class = "API"     -> {"request", "respond"}
      [] OTHER             -> {}

\* Ticker.tick
TickerTick(input) == [key |-> input["key"]]

\* Counter.update: value = len(using)
CounterUpdate(input) == [count |-> I(input["using"][2])]

\* Concept.perform: does the lookup of the provider and of the operation succeed
CanPerform(cs, concept, action) ==
    /\ concept \in DOMAIN cs
    /\ action \in ActionsOf(cs[concept])

\* Concept.perform on a found operation: the output map
Perform(cs, concept, action, input) ==
    CASE cs[concept] = "Ticker"  -> TickerTick(input)
      [] cs[concept] = "Counter" -> CounterUpdate(input)

\* the provider state after the operation
ProvAfter(p, cs, concept, action, input) ==
    IF cs[concept] = "Counter"
    THEN [p EXCEPT !.counter = input["using"][2]]
    ELSE p

\* the state of the providers as constructed: Counter.value, Camera._latest_id
\* (0 for None), whether Camera._cap is set and the number of frames in
\* Camera._frames, Detector's
\* _det_to_frame (the frame of each detections handle), Associator's records
\* (the frame of each associations handle), Renderer's (the frame of each
\* render handle), API._req (the callback of each request handle) and how
\* often each callback has been called
NoProv ==
    [counter |-> 0, opened |-> FALSE, latest |-> 0, frames |-> 0, dets |-> << >>,
     assocs |-> << >>, renders |-> << >>, reqs |-> << >>, answered |-> << >>]

\* Camera.capture: the read succeeds and the frame is stored as the latest
\* one, or it fails and {"frame": None} is returned
CameraCapture(p, input) ==
    { [out |-> [frame |-> Uuid("frame", p.frames + 1)],
       prov |-> [p EXCEPT !.opened = TRUE, !.frames = p.frames + 1,
                          !.latest = p.frames + 1]],
      [out |-> [frame |-> NoneV], prov |-> [p EXCEPT !.opened = TRUE]] }

\* Camera._ensure_open: while no device is open, opening one may fail
\* (RuntimeError)
PerformMayRaise(p, cs, concept, action) ==
    /\ concept \in DOMAIN cs
    /\ cs[concept] = "Camera" /\ action = "capture"
    /\ ~p.opened

\* Detector.detect: a new detections handle, remembered with its frame
DetectorDetect(p, input) ==
    { [out |-> [detections |-> Uuid("detections", Len(p.dets) + 1)],
       prov |-> [p EXCEPT !.dets = Append(@, input["frame"])]] }

\* a provider registered under the name Detector whose detect may also
\* return an output without the key detections
StubDetect(p, input) ==
    DetectorDetect(p, input) \cup { [out |-> EmptyDict, prov |-> p] }

\* Associator.assign: a new associations handle, remembered with its frame
AssociatorAssign(p, input) ==
    { [out |-> [associations |-> Uuid("associations", Len(p.assocs) + 1)],
       prov |-> [p EXCEPT !.assocs = Append(@, input["frame"])]] }

\* Renderer.render: a new render handle, the latest one of its frame
RendererRender(p, input) ==
    { [out |-> [render |-> Uuid("render", Len(p.renders) + 1)],
       prov |-> [p EXCEPT !.renders = Append(@, input["frame"])]] }

\* API.request: a new request handle, remembered with its callback
ApiRequest(p, input) ==
    { [out |-> [request |-> Uuid("request", Len(p.reqs) + 1)],
       prov |-> [p EXCEPT !.reqs = Append(@, input["callback"]),
                          !.answered = Append(@, 0)]] }

\* the callback of a request handle API._req knows, or None
CallbackOf(p, request) ==
    IF request[1] = "uuid" /\ request[3] = "request" /\ request[2] \in 1..Len(p.reqs)
    THEN p.reqs[request[2]] ELSE NoneV

\* the handle returned without the callback being called
ApiRespond_Silent(p, input) == { [out |-> [request |-> input["request"]], prov |-> p] }

\* API.respond: the stored callback is called; the handle is returned
ApiRespond(p, input) ==
    { [out |-> [request |-> input["request"]],
       prov |-> IF CallbackOf(p, input["request"])[1] = "callable"
                THEN [p EXCEPT !.answered[input["request"][2]] = @ + 1]
                ELSE p] }

\* the try/except around the callback left out
CallbackFaultCaught_Not == FALSE

\* try: req["callback"](...) except Exception: pass (lines 274 to 277)
CallbackFaultCaught == TRUE

\* does the provider's own code raise during perform: only a callback that
\* raises could make API.respond do so
PerformRaises(p, cs, concept, action, input) ==
    /\ concept \in DOMAIN cs
    /\ cs[concept] = "API" /\ action = "respond"
    /\ CallbackOf(p, input["request"]) = Callback(1)
    /\ ~CallbackFaultCaught

\* Concept.perform on a found operation: the possible [out, prov] pairs, out
\* the output map and prov the providers' state after the operation
Outcomes(p, cs, concept, action, input) ==
    CASE cs[concept] = "Camera"       -> CameraCapture(p, input)
      [] cs[concept] = "Detector"     -> DetectorDetect(p, input)
      [] cs[concept] = "StubDetector" -> StubDetect(p, input)
      [] cs[concept] = "Associator"   -> AssociatorAssign(p, input)
      [] cs[concept] = "Renderer"     -> RendererRender(p, input)
      [] cs[concept] = "API" /\ action = "request" -> ApiRequest(p, input)
      [] cs[concept] = "API" /\ action = "respond" -> ApiRespond(p, input)
      [] OTHER -> { [out |-> Perform(cs, concept, action, input),
                     prov |-> ProvAfter(p, cs, concept, action, input)] }

----------------------------------------------------------------------------
(* Rules (WhenPattern, Sync) *)

\* WhenPattern(concept, action, inputs, outputs); the two dicts are kept as
\* sequences of <<key, term>> pairs in insertion order, the order .items() yields
WhenPattern(concept, action, inputs, outputs) ==
    [concept |-> concept, action |-> action, inputs |-> inputs, outputs |-> outputs]

\* one (concept, action, params) triple of an effect producer; a parameter is
\* a constant or fr.get of a variable
Effect(concept, action, params) ==
    [concept |-> concept, action |-> action, params |-> params]

\* Sync(name, when, where, then)
Sync(name, when, where, then) ==
    [name |-> name, when |-> when, where |-> where, then |-> then]

\* rule i of a ring of k rules: tick(key=i) triggers tick(key=i+1), the last
\* one triggers tick(key=1)
RingRule(i, k) ==
    Sync("Ring",
         << WhenPattern("Ticker", "tick", << <<"key", I(i)>> >>, << >>) >>,
         "none",
         << Effect("Ticker", "tick", [key |-> I((i % k) + 1)]) >>)

RingRules(k) == [i \in 1..k |-> RingRule(i, k)]

\* a rule set using every feature of a rule: placeholders, literals, output
\* bindings, two patterns, a guard, two effects, an effect on a provider that
\* is not registered
MixedRules ==
    << Sync("TickToCount",
            << WhenPattern("Ticker", "tick", << <<"key", Sigil("k")>> >>,
                           << <<"key", "o">> >>) >>,
            "none",
            << Effect("Counter", "update", [frame |-> FrGet("o"), using |-> L(0)]) >>),
       Sync("Ghost",
            << WhenPattern("Ticker", "tick", << <<"key", S("a")>> >>, << >>) >>,
            "none",
            << Effect("Ghost", "op", EmptyDict) >>),
       Sync("Both",
            << WhenPattern("Counter", "update",
                           << <<"using", Sigil("k")>>, <<"frame", I(1)>> >>,
                           << <<"count", "c">> >>),
               WhenPattern("Ticker", "tick", << <<"key", Sigil("j")>> >>, << >>) >>,
            "counterIsZero",
            << Effect("Counter", "update", [frame |-> I(2), using |-> L(1)]),
               Effect("Ticker", "tick", [key |-> FrGet("j")]) >>) >>

\* two rules whose triggers are of different providers: the effect of the
\* first hides the trigger of the second from every later snapshot
OrderRules ==
    << Sync("First",
            << WhenPattern("Counter", "update", << <<"frame", I(1)>> >>, << >>) >>,
            "none",
            << Effect("Ticker", "tick", [key |-> S("x")]) >>),
       Sync("Second",
            << WhenPattern("Ticker", "tick", << <<"key", S("go")>> >>, << >>) >>,
            "none",
            << Effect("Counter", "update", [frame |-> I(2), using |-> L(0)]) >>) >>

\* three rules that hand bindings on: the first binds k and then fails on
\* its second pattern, the guard of the second binds n and vetoes once the
\* counter is not 0, the effect producer of the third reads k and n
BindRules ==
    << Sync("Half",
            << WhenPattern("Ticker", "tick", << <<"key", Sigil("k")>> >>, << >>),
               WhenPattern("Counter", "update", << <<"frame", I(9)>> >>, << >>) >>,
            "none",
            << Effect("Ticker", "tick", [key |-> FrGet("k")]) >>),
       Sync("Veto",
            << WhenPattern("Ticker", "tick", << <<"key", Sigil("j")>> >>, << >>) >>,
            "counterIsZero",
            << Effect("Counter", "update", [frame |-> I(5), using |-> L(1)]) >>),
       Sync("Late",
            << WhenPattern("Counter", "update", << >>, << >>) >>,
            "none",
            << Effect("Counter", "update", [frame |-> FrGet("k"), using |-> L(1)]),
               Effect("Counter", "update", [frame |-> FrGet("n"), using |-> L(1)]) >>) >>

\* the params {} of a request and the thresholds dict of Associate_then
NoParams == <<"map", 0, "">>
Thresholds == <<"map", 3, "thresholds">>

\* make_syncs: the rules appended to the list, in that order
AppRules ==
    << Sync("TickToCapture",
            << WhenPattern("Ticker", "tick", << <<"key", S("capture")>> >>, << >>) >>,
            "tick_to_capture_where",
            << Effect("Camera", "capture", [device |-> S("0")]) >>),
       Sync("TickToDetect",
            << WhenPattern("Ticker", "tick", << <<"key", S("detect")>> >>, << >>) >>,
            "TickToDetect_where",
            << Effect("Detector", "detect",
                      [frame |-> FrGet("frame_id"), img |-> FrGet("img"),
                       conf |-> F("0.25"), iou |-> F("0.45")]) >>),
       Sync("AssociateAfterDetect",
            << WhenPattern("Detector", "detect", << >>, << <<"detections", "det">> >>) >>,
            "Associate_where",
            << Effect("Associator", "assign",
                      [frame |-> FrGet("frame_id"), boxes |-> FrGet("boxes"),
                       thresholds |-> Thresholds]) >>),
       Sync("RenderAfterAssociate",
            << WhenPattern("Associator", "assign", << >>, << <<"associations", "as">> >>) >>,
            "Render_where",
            << Effect("Renderer", "render",
                      [frame |-> FrGet("frame_id"), img |-> FrGet("img"),
                       persons |-> FrGet("persons"), phones |-> FrGet("phones"),
                       matches |-> FrGet("matches"), using |-> FrGet("using")]),
               Effect("Counter", "update",
                      [frame |-> FrGet("frame_id"), using |-> FrGet("using")]) >>),
       Sync("GetFrame",
            << WhenPattern("API", "request",
                           << <<"path", S("/frame.jpg")>>, <<"method", S("GET")>>,
                              <<"params", Sigil("p")>> >>,
                           << <<"request", "r">> >>) >>,
            "GetFrame_where",
            << Effect("API", "respond",
                      [request |-> FrGet("req_id"), body |-> Dict1("image", FrGet("img")),
                       contentType |-> S("image/jpeg")]) >>),
       Sync("GetCount",
            << WhenPattern("API", "request",
                           << <<"path", S("/count")>>, <<"method", S("GET")>>,
                              <<"params", Sigil("p")>> >>,
                           << <<"request", "r">> >>) >>,
            "GetCount_where",
            << Effect("API", "respond",
                      [request |-> FrGet("req_id"), body |-> Dict1("using", FrGet("n")),
                       contentType |-> S("application/json")]) >>),
       Sync("IndexPage",
            << WhenPattern("API", "request",
                           << <<"path", S("/")>>, <<"method", S("GET")>>,
                              <<"params", Sigil("p")>> >>,
                           << <<"request", "r">> >>) >>,
            "Index_where",
            << Effect("API", "respond",
                      [request |-> FrGet("req_id"), body |-> Dict1("html", HtmlOf("n")),
                       contentType |-> S("text/html")]) >>) >>

\* the runs other than those of the mixed rule set (0) and of a ring of k
\* rules (k): the two ordered rules; the same with a second provider
\* registered under the name Ticker; the application with capture ticks; with
\* its two ticker threads; with a Detector that may leave out its output key;
\* with requests of the web routes; the three rules that hand bindings on
OrderRun == -1
TwiceRun == -2
CaptureRun == -3
DetectRun == -4
StubRun == -5
GatewayRun == -6
BindRun == -7
AppRuns == {CaptureRun, DetectRun, StubRun, GatewayRun}
Scenarios == {OrderRun, TwiceRun, BindRun} \cup AppRuns

\* the rules the run registers
RuleSet(c) ==
    CASE c = 0 -> MixedRules
      [] c > 0 -> RingRules(c)
      [] c \in AppRuns -> AppRules
      [] c = BindRun -> BindRules
      [] OTHER -> OrderRules

\* build_engine: the providers of the application, <<name, class>>
AppProviders(detector) ==
    << <<"Ticker", "Ticker">>, <<"Camera", "Camera">>, <<"Detector", detector>>,
       <<"Associator", "Associator">>, <<"Renderer", "Renderer">>,
       <<"Counter", "Counter">>, <<"API", "API">> >>

\* the providers the run registers, in registration order: <<name, class>>
ProviderList(c) ==
    CASE c = TwiceRun -> << <<"Ticker", "Ticker">>, <<"Counter", "Counter">>,
                            <<"Ticker", "Counter">> >>
      [] c = StubRun -> AppProviders("StubDetector")
      [] c \in AppRuns -> AppProviders("Detector")
      [] OTHER -> << <<"Ticker", "Ticker">>, <<"Counter", "Counter">> >>

\* the name of a query: its first character when that is "_", and the rest
QName(prefix, stem) == <<prefix, stem>>

\* the query methods of a provider class
QueriesOf(class) ==
    CASE class = "Counter" -> { QName("_", "get") }
      [] OTHER             -> {}

\* the calls of Engine.query the harness may make: <<concept, qname>>
TopQueries(c) ==
    { <<"Counter", QName("_", "get")>>, <<"Counter", QName("", "update")>>,
      <<"Counter", QName("_", "got")>> }

\* how many top-level calls a run makes, how many flows it starts: the run
\* of the two ticker threads has one tick more
CallBound(c) == IF c \in {DetectRun, GatewayRun} THEN MaxCalls + 1 ELSE MaxCalls
FlowBound(c) == IF c \in {DetectRun, GatewayRun} THEN MaxFlows + 1 ELSE MaxFlows

\* the flows a top-level invoke may name: None (0), or a flow that exists; the
\* ticker threads and the web routes pass no flow
FlowChoices(c) ==
    IF c \in {DetectRun, GatewayRun} THEN {0} ELSE {0} \cup DOMAIN flow_log

\* the tick of a ticker thread
Tick(key) == Effect("Ticker", "tick", [key |-> S(key)])

\* the API.request of a web route, with its callback
Request(path, cb) ==
    Effect("API", "request",
           [callback |-> cb, path |-> S(path), method |-> S("GET"), params |-> NoParams])

\* the top-level invokes the harness may make
TopCalls(c) ==
    IF c \in {OrderRun, TwiceRun}
    THEN { Effect("Ticker", "tick", [key |-> S("go")]),
           Effect("Counter", "update", [frame |-> I(1), using |-> L(0)]) }
    ELSE IF c = CaptureRun THEN { Tick("capture") }
    ELSE IF c = DetectRun THEN { Tick("capture"), Tick("detect") }
    ELSE IF c = StubRun
    THEN { Effect("Detector", "detect",
                  [frame |-> Uuid("other", 1), img |-> Img(0),
                   conf |-> F("0.25"), iou |-> F("0.45")]) }
    ELSE IF c = GatewayRun
    THEN { Tick("capture"), Request("/frame.jpg", Callback(0)),
           Request("/count", Callback(1)), Request("/", Callback(0)) }
    ELSE IF c = BindRun THEN { Tick("a") }
    ELSE IF c = 0
    THEN { Effect("Ticker", "tick", [key |-> I(1)]),
           Effect("Ticker", "tick", [key |-> S("a")]),
           Effect("Ticker", "tock", EmptyDict) }
    ELSE { Effect("Ticker", "tick", [key |-> I(j)]) : j \in 1..(IF c < 2 THEN c ELSE 2) }

\* the top-level invokes of one thread: in the run of the two ticker threads
\* (main.py) the first thread ticks capture, the second detect
ThreadCalls(c, t) ==
    IF c = DetectRun
    THEN IF t = "t1" THEN { Tick("capture") } ELSE { Tick("detect") }
    ELSE IF c = GatewayRun
    THEN IF t = "t1" THEN { Tick("capture") } ELSE TopCalls(c) \ { Tick("capture") }
    ELSE TopCalls(c)

----------------------------------------------------------------------------
(* Frame and pattern matching *)

\* the scan running from the start of the list: the oldest such record
Last_Oldest(actions, concept, action) ==
    IF \E n \in 1..Len(actions) : actions[n].concept = concept /\ actions[n].action = action
    THEN CHOOSE n \in 1..Len(actions) :
            /\ actions[n].concept = concept /\ actions[n].action = action
            /\ \A m \in 1..(n - 1) :
                  ~(actions[m].concept = concept /\ actions[m].action = action)
    ELSE 0

\* Frame.last: the index of the last record of that provider and operation,
\* scanning the snapshot from its end; 0 stands for None
RECURSIVE LastFrom(_, _, _, _)
LastFrom(actions, concept, action, n) ==
    IF n = 0 THEN 0
    ELSE IF actions[n].concept = concept /\ actions[n].action = action THEN n
    ELSE LastFrom(actions, concept, action, n - 1)

Last(actions, concept, action) == LastFrom(actions, concept, action, Len(actions))

\* Frame.bind
Bind(env, var, value) == DictSet(env, var, value)

\* every term compared as a literal
MatchTerm_AllLiteral(rec, key, expected, env) ==
    [ok |-> PyEq(DictGet(rec.input, key), expected), env |-> env]

\* one input term against the record: a placeholder binds, a literal compares
\* [ok, env]
MatchTerm(rec, key, expected, env) ==
    IF IsPlaceholder(expected)
    THEN [ok |-> TRUE, env |-> Bind(env, VarOf(expected), DictGet(rec.input, key))]
    ELSE [ok |-> PyEq(DictGet(rec.input, key), expected), env |-> env]

\* the loop over pat.inputs.items(), from term j on
RECURSIVE MatchInputs(_, _, _, _)
MatchInputs(rec, inputs, j, env) ==
    IF j > Len(inputs) THEN [ok |-> TRUE, env |-> env]
    ELSE LET r == MatchTerm(rec, inputs[j][1], inputs[j][2], env)
         IN IF r.ok THEN MatchInputs(rec, inputs, j + 1, r.env) ELSE r

\* a missing output key read as None (rec.output.get)
RECURSIVE MatchOutputs_Get(_, _, _, _)
MatchOutputs_Get(rec, outputs, j, env) ==
    IF j > Len(outputs) THEN [ok |-> TRUE, env |-> env]
    ELSE MatchOutputs_Get(rec, outputs, j + 1,
                          Bind(env, outputs[j][2], DictGet(rec.output, outputs[j][1])))

\* the loop over pat.outputs.items(), from binding j on
RECURSIVE MatchOutputs(_, _, _, _)
MatchOutputs(rec, outputs, j, env) ==
    IF j > Len(outputs) THEN [ok |-> TRUE, env |-> env]
    ELSE IF outputs[j][1] \notin DOMAIN rec.output THEN [ok |-> FALSE, env |-> env]
    ELSE MatchOutputs(rec, outputs, j + 1,
                      Bind(env, outputs[j][2], rec.output[outputs[j][1]]))

\* Engine._match_when from pattern p on: [ok, env, used], used being the
\* record index each tested pattern looked at.  The next pattern starts from
\* the bindings this one left (env2, computed once)
RECURSIVE MatchWhenFrom(_, _, _, _, _)
MatchWhenFrom(when, actions, p, env, used) ==
    IF p > Len(when) THEN [ok |-> TRUE, env |-> env, used |-> used]
    ELSE LET pat == when[p]
             n == Last(actions, pat.concept, pat.action)
             u == Append(used, n)
         IN IF n = 0 \/ ~actions[n].has_output
            THEN [ok |-> FALSE, env |-> env, used |-> u]
            ELSE LET mi == MatchInputs(actions[n], pat.inputs, 1, env)
                 IN IF ~mi.ok THEN [ok |-> FALSE, env |-> mi.env, used |-> u]
                    ELSE LET mo == MatchOutputs(actions[n], pat.outputs, 1, mi.env)
                         IN IF ~mo.ok THEN [ok |-> FALSE, env |-> mo.env, used |-> u]
                            ELSE CHOOSE r \in { MatchWhenFrom(when, actions, p + 1, env2, u) :
                                                 env2 \in { mo.env } } : TRUE

MatchWhen(sync, actions, env) == MatchWhenFrom(sync.when, actions, 1, env, << >>)

\* sync.where is None or sync.where(self, frame); the guard of the mixed rule
\* set asks the Counter for its value (Engine.query, no lock) and binds it
\* Detector._frameOf(detections).get("frame")
FrameOf(p, detections) ==
    IF detections[1] = "uuid" /\ detections[3] = "detections"
       /\ detections[2] \in 1..Len(p.dets)
    THEN p.dets[detections[2]] ELSE NoneV

\* Associator._get(associations).get("frame"): the record is found while it
\* is the one _by_frame holds for its frame
AssocFrame(p, associations) ==
    IF associations[1] = "uuid" /\ associations[3] = "associations"
       /\ associations[2] \in 1..Len(p.assocs)
       /\ \A k \in (associations[2] + 1)..Len(p.assocs) :
             p.assocs[k] # p.assocs[associations[2]]
    THEN p.assocs[associations[2]] ELSE NoneV

\* Camera._getFrame(frame).get("data")
FrameData(p, frame) ==
    IF frame[1] = "uuid" /\ frame[3] = "frame" /\ frame[2] \in 1..p.frames
    THEN Img(frame[2]) ELSE NoneV

\* Renderer._latestByFrame(frame): the index of the render, or 0
LatestRender(p, frame) ==
    IF \E k \in 1..Len(p.renders) : p.renders[k] = frame
    THEN CHOOSE k \in 1..Len(p.renders) :
            /\ p.renders[k] = frame
            /\ \A j \in (k + 1)..Len(p.renders) : p.renders[j] # frame
    ELSE 0

\* Bind for a list of <<var, value>>
RECURSIVE BindAll(_, _)
BindAll(env, pairs) ==
    IF pairs = << >> THEN env
    ELSE BindAll(Bind(env, pairs[1][1], pairs[1][2]), Tail(pairs))

\* the guard that never holds
WhereHolds_Never(sync, p, env, snap) == [ok |-> FALSE, env |-> env]

\* sync.where is None or sync.where(self, frame): the guards of make_syncs,
\* which read the snapshot of the pass and query the providers (Engine.query,
\* no lock), and the guard of the mixed rule set, which asks the Counter for
\* its value.  The detector's boxes are those of a picture without persons
\* or phones.  [ok, env]
WhereHolds(sync, p, env, snap) ==
    LET no == [ok |-> FALSE, env |-> env]
        yes(pairs) == [ok |-> TRUE, env |-> BindAll(env, pairs)]
    IN CASE sync.where = "none" -> yes(<< >>)
         [] sync.where = "counterIsZero" ->
              [ok |-> p.counter = 0, env |-> Bind(env, "n", I(p.counter))]
         [] sync.where = "tick_to_capture_where" ->
              LET tick == Last(snap, "Ticker", "tick")
                  cap == Last(snap, "Camera", "capture")
              IN IF tick = 0 THEN no
                 ELSE [ok |-> cap = 0 \/ snap[cap].t < snap[tick].t, env |-> env]
         [] sync.where = "TickToDetect_where" ->
              IF p.latest = 0 THEN no
              ELSE yes(<< <<"frame_id", Uuid("frame", p.latest)>>,
                          <<"img", Img(p.latest)>> >>)
         [] sync.where = "Associate_where" ->
              LET det == Last(snap, "Detector", "detect")
              IN IF det = 0 THEN no
                 ELSE LET frame == FrameOf(p, DictGet(snap[det].output, "detections"))
                      IN IF frame = NoneV THEN no
                         ELSE yes(<< <<"frame_id", frame>>, <<"boxes", L(0)>> >>)
         [] sync.where = "Render_where" ->
              LET assoc == Last(snap, "Associator", "assign")
              IN IF assoc = 0 THEN no
                 ELSE LET frame == AssocFrame(p, DictGet(snap[assoc].output, "associations"))
                          img == IF frame = NoneV THEN NoneV ELSE FrameData(p, frame)
                      IN IF img = NoneV THEN no
                         ELSE yes(<< <<"frame_id", frame>>, <<"img", img>>,
                                     <<"persons", L(0)>>, <<"phones", L(0)>>,
                                     <<"matches", L(0)>>, <<"using", L(0)>> >>)
         [] sync.where = "GetFrame_where" ->
              LET req == Last(snap, "API", "request")
              IN IF req = 0 \/ p.latest = 0 THEN no
                 ELSE LET r == LatestRender(p, Uuid("frame", p.latest))
                      IN yes(<< <<"img", IF r # 0 THEN Jpeg("render", r)
                                         ELSE Jpeg("frame", p.latest)>>,
                                <<"req_id", DictGet(snap[req].output, "request")>> >>)
         [] sync.where \in {"GetCount_where", "Index_where"} ->
              LET req == Last(snap, "API", "request")
              IN yes(<< <<"n", I(p.counter)>>,
                        <<"req_id", DictGet(snap[req].output, "request")>> >>)

\* the name under which a producer finds its reading of the clock,
\* int(time.time()*1000); no rule binds it and no Frame keeps it
TimeVar == "time.time"

\* does the producer of the rule read the clock (Index_then, line 258)
ReadsClock(sync) ==
    \E j \in 1..Len(sync.then) : \E k \in DOMAIN sync.then[j].params :
        sync.then[j].params[k][1] = "dict" /\ sync.then[j].params[k][2][1] = "tmpl"

\* Frame.get inside an effect producer (self.vars[var]; the producers of the
\* rule sets read variables their patterns have bound)
Resolve(term, env) ==
    IF term[1] = "var" THEN env[term[3]]
    ELSE IF term[1] = "dict" /\ term[2][1] = "tmpl"
    THEN Dict1(term[3], Html(env[term[2][3]][2], env[TimeVar][2]))
    ELSE IF term[1] = "dict" THEN Dict1(term[3], env[term[2][3]])
    ELSE term

\* the params dict of one produced triple, key by key
RECURSIVE ResolveAll(_, _, _)
ResolveAll(params, keys, env) ==
    IF keys = {} THEN EmptyDict
    ELSE LET k == CHOOSE x \in keys : TRUE
         IN DictSet(ResolveAll(params, keys \ {k}, env), k, Resolve(params[k], env))

\* the list sync.then(frame) returns, from triple j on
RECURSIVE ThenFrom(_, _, _)
ThenFrom(then, j, env) ==
    IF j > Len(then) THEN << >>
    ELSE << Effect(then[j].concept, then[j].action,
                   ResolveAll(then[j].params, DOMAIN then[j].params, env)) >>
         \o ThenFrom(then, j + 1, env)

\* the triples of a producer in reverse
RECURSIVE ThenOf_Reversed(_, _)
ThenOf_Reversed(sync, env) ==
    IF sync.then = << >> THEN << >>
    ELSE ThenOf_Reversed([sync EXCEPT !.then = Tail(@)], env)
         \o ThenFrom(<< Head(sync.then) >>, 1, env)

\* sync.then(frame): the list of (concept, action, params)
ThenOf(sync, env) == ThenFrom(sync.then, 1, env)

----------------------------------------------------------------------------
(* State of a running invoke *)

Top(t) == stack[t][Len(stack[t])]
Busy(t) == stack[t] # << >>

\* an invoke that is about to take the lock; flow 0 stands for flow=None.
\* evs is the history of the rule evaluations of the current pass, each with
\* the records of the invokes it made that have returned
Activation(call, flow) ==
    [concept |-> call.concept, action |-> call.action, input |-> call.params,
     flow |-> flow, rec |-> <<0, 0>>, pc |-> "call",
     snap |-> << >>, env |-> EmptyDict, i |-> 0, pending |-> << >>,
     progress |-> TRUE, passes |-> 0, total |-> 0, evs |-> << >>]

\* how a top-level invoke ended: "returned" with its record, or "raised" by
\* the invoke at that depth of the cascade, the flow's log being loglen long
NoResult ==
    [status |-> "none", depth |-> 0, flow |-> 0, rec |-> <<0, 0>>, loglen |-> 0,
     passes |-> 0, total |-> 0]

\* a pass counter of the history, one more
Count(n, more) == IF n + more < PassCap THEN n + more ELSE PassCap

\* the record put at the head of the list
Appended_AtFront(old, rec) == <<rec>> \o old

\* self.flow_log.setdefault(flow, []).append(rec) (line 88): the flow's list after it
Appended(old, rec) == Append(old, rec)

\* the snapshot taken from the log of the flow opened last
Snapshot_LatestFlow(f) == flow_log[Len(flow_log)]

\* list(self.flow_log[flow]) (line 100)
Snapshot(f) == flow_log[f]

\* the loop never left
LoopAgain_Always(a) == TRUE

\* while made_progress: (line 97)
LoopAgain(a) == a.progress

\* the flag not set after an invoke
ProgressAfterInvoke_Lost == FALSE

\* made_progress = True (line 114)
ProgressAfterInvoke == TRUE

\* ActionRecord(id, concept, action, input, output, flow) with t = time.time()
ActionRecord(id, concept, action, input, output, flow, t) ==
    [id |-> id, concept |-> concept, action |-> action, input |-> input,
     output |-> output, has_output |-> TRUE, flow |-> flow, t |-> t]

\* time.time() read when the record is built: the clock may have advanced
\* since it was last read
TimeNow == { n \in clock..(clock + 1) : n <= MaxClock }

\* the with-statement entered without taking the lock
LockAfterAcquire_Free(t) == NoThread

\* what the lock is once a thread is inside the with-block (line 82)
LockAfterAcquire(t) == t

\* the lock kept while the rules are evaluated
LockAfterAppend_Held(t) == t

\* what the lock is once invoke leaves its with-block (line 88 to 90)
LockAfterAppend(t) == NoThread

\* the lock left taken by the exception
LockAfterRaise_Held(t) == t

\* what the lock is once an exception has left the with-block (line 82 to 86)
LockAfterRaise(t) == NoThread

\* the dedup check always finding the key new
AlreadyEmitted_Never(em, key) == FALSE

\* every key taken as emitted already
AlreadyEmitted_Always(em, key) == TRUE

\* `key in emitted` (line 110)
AlreadyEmitted(em, key) == key \in em

\* one set for all the flows
EmittedOf_AnyFlow(em, f) == UNION { em[g] : g \in DOMAIN em }

\* emitted = self._emitted.setdefault(flow, set()) (line 100): the set of the
\* flow being evaluated
EmittedOf(em, f) == em[f]

\* the guard called whether the patterns matched or not
Guarded_Unconditional(sync, p, m, snap) == WhereHolds(sync, p, m.env, snap)

\* line 105: the guard is called only when the patterns matched (m)
Guarded(sync, p, m, snap) ==
    IF m.ok THEN WhereHolds(sync, p, m.env, snap) ELSE [ok |-> FALSE, env |-> m.env]

\* every rule starting from an empty environment
EnvForNextRule_Fresh(env) == EmptyDict

\* the one Frame of the pass (line 102) is passed to _match_when, to the
\* guard and to the producer of every rule: what they bound stays in
\* frame.vars for the rules after
EnvForNextRule(env) == env

\* the activation once rule i has been tested: m is the outcome of _match_when,
\* w that of the guard; line 106 lists the effects when both succeeded
Evaluated(a, i, m, w, now) ==
    [a EXCEPT !.i = i, !.env = EnvForNextRule(w.env),
              !.pending = IF w.ok
                          THEN ThenOf(syncs[i], IF ReadsClock(syncs[i])
                                                THEN Bind(w.env, TimeVar, I(now))
                                                ELSE w.env)
                          ELSE << >>,
              !.evs = Append(@, [rule |-> i, ok |-> m.ok, fire |-> w.ok, used |-> m.used,
                                 pre |-> a.env, post |-> m.env, after |-> w.env,
                                 invoked |-> << >>]),
              !.pc = "next"]

\* the rules matched against the log as it is when each is tested
FrameActions_Live(a) == IF a.flow \in DOMAIN flow_log THEN flow_log[a.flow] ELSE << >>

\* frame = Frame(flow, actions) (line 102), built before the loop over the
\* rules: every rule of the pass is matched against the copy of line 99
FrameActions(a) == a.snap

\* lines 104 to 106 for rule i of an activation: _match_when (computed once,
\* m), the guard, the effect producer; p is the provider state the guard's
\* queries read
EvalSync(a, i, p, now) ==
    CHOOSE b \in { Evaluated(a, i, m, Guarded(syncs[i], p, m, FrameActions(a)), now) :
                     m \in { MatchWhen(syncs[i], FrameActions(a), a.env) } } : TRUE

\* The thread runs on, from an activation whose pc is "next", to its next
\* access to shared state: the dedup check of the next effect ("emit"), the
\* guard of the next rule, which queries providers ("rule"), the snapshot of
\* the next pass ("pass"); matching a rule reads the frame only, so a rule
\* without a guard, or whose patterns do not match, is part of the step.  When a pass ends without progress the
\* invoke returns (line 91) into line 114 of the evaluation that called it,
\* or to the caller of the thread.  [stack, done, result]
RECURSIVE RunOn(_), RunFrom(_)
RunOn(stack_t) == CHOOSE r \in { RunFrom(stk) : stk \in {stack_t} } : TRUE

\* RunOn for the stack stk of a thread
RunFrom(stk) ==
    LET n == Len(stk)
        a == stk[n]
        put(b) == [stk EXCEPT ![n] = b]
    IN IF a.pending # << >>
       THEN [stack |-> put([a EXCEPT !.pc = "emit"]), done |-> FALSE, result |-> NoResult]
       ELSE IF a.i < Len(syncs)
       THEN IF syncs[a.i + 1].where = "none" \/ ~MatchWhen(syncs[a.i + 1], FrameActions(a), a.env).ok
            THEN RunOn(put(EvalSync(a, a.i + 1, NoProv, 0)))
            ELSE [stack |-> put([a EXCEPT !.i = a.i + 1, !.pc = "rule"]),
                  done |-> FALSE, result |-> NoResult]
       ELSE IF LoopAgain(a)
       THEN [stack |-> put([a EXCEPT !.pc = "pass"]), done |-> FALSE, result |-> NoResult]
       ELSE IF n = 1
       THEN [stack |-> << >>, done |-> TRUE,
             result |-> [status |-> "returned", depth |-> 1, flow |-> a.flow,
                         rec |-> a.rec, loglen |-> 0, passes |-> a.passes,
                         total |-> a.total]]
       ELSE RunOn(Append(SubSeq(stk, 1, n - 2),
                         [stk[n - 1] EXCEPT !.progress = ProgressAfterInvoke,
                                            !.total = Count(@, a.total),
                                            !.evs[Len(stk[n - 1].evs)].invoked =
                                                Append(@, a.rec),
                                            !.pc = "next"]))

\* the step of thread t ends with its top activation replaced by b
Proceed(t, b) ==
    \E r \in { RunOn([stack[t] EXCEPT ![Len(stack[t])] = b]) } :
       /\ stack' = [stack EXCEPT ![t] = r.stack]
       /\ result' = IF r.done THEN [result EXCEPT ![t] = r.result] ELSE result

\* the engine runs call Associator.assign with no boxes (AssociatorAssign):
\* its steps are followed in the runs of AssignSpec only
NoAssign == [pc |-> "none"]

----------------------------------------------------------------------------
(* Actions *)

\* Engine(), the providers and the threads as constructed, the clock at c
InitAt(c) ==
    /\ phase = "setup"
    /\ cfg \in 0..MaxK
    /\ concepts = << >>
    /\ syncs = << >>
    /\ flow_log = << >>
    /\ emitted = << >>
    /\ lock = NoThread
    /\ clock = c
    /\ prov = NoProv
    /\ stack = [t \in Threads |-> << >>]
    /\ result = [t \in Threads |-> NoResult]
    /\ fired = << >>
    /\ calls = 0
    /\ registered = << >>
    /\ overlapped = {}
    /\ assign = NoAssign

Init == InitAt(0)

\* self.concepts[concept.name] = concept (line 76)
ConceptsAfterRegister(cs, name, class) == DictSet(cs, name, class)

\* the rule put at the head of the list
SyncsAfterRegister_AtFront(list, sync) == <<sync>> \o list

\* self.syncs.append(sync) (line 78)
SyncsAfterRegister(list, sync) == Append(list, sync)

\* Engine.register_concept, as build_engine calls it
RegisterConcept ==
    /\ phase = "setup"
    /\ Len(registered) < Len(ProviderList(cfg))
    /\ LET p == ProviderList(cfg)[Len(registered) + 1]
       IN /\ concepts' = ConceptsAfterRegister(concepts, p[1], p[2])
          /\ registered' = Append(registered, p)
    /\ UNCHANGED <<phase, cfg, syncs, flow_log, emitted, lock, clock, prov,
                   stack, result, fired, calls, overlapped, assign>>

\* Engine.register_sync, as build_engine calls it
RegisterSync ==
    /\ phase = "setup"
    /\ Len(registered) = Len(ProviderList(cfg))
    /\ Len(syncs) < Len(RuleSet(cfg))
    /\ syncs' = SyncsAfterRegister(syncs, RuleSet(cfg)[Len(syncs) + 1])
    /\ UNCHANGED <<phase, cfg, concepts, flow_log, emitted, lock, clock, prov,
                   stack, result, fired, calls, registered, overlapped, assign>>

\* build_engine returns; the threads start
Start ==
    /\ phase = "setup"
    /\ Len(registered) = Len(ProviderList(cfg))
    /\ Len(syncs) = Len(RuleSet(cfg))
    /\ phase' = "run"
    /\ UNCHANGED <<cfg, concepts, syncs, flow_log, emitted, lock, clock, prov,
                   stack, result, fired, calls, registered, overlapped, assign>>

\* flows that exist or will exist once the pending flow=None invokes dispatch
FlowsClaimed ==
    Len(flow_log) + Cardinality({t \in Threads : Busy(t) /\ stack[t][1].flow = 0})

\* a thread calls Engine.invoke(concept, action, input, flow=f); the threads
\* are interchangeable, the one that makes the first call is named t1
Call(t) ==
    /\ phase = "run"
    /\ ~Busy(t)
    /\ calls < CallBound(cfg)
    /\ calls = 0 => t = "t1"
    /\ \E c \in ThreadCalls(cfg, t), f \in FlowChoices(cfg) :
          /\ f = 0 => FlowsClaimed < FlowBound(cfg)
          /\ stack' = [stack EXCEPT ![t] = << Activation(c, f) >>]
    /\ result' = [result EXCEPT ![t] = NoResult]
    /\ calls' = calls + 1
    /\ overlapped' = IF \E u \in Threads : Busy(u)
                     THEN overlapped \cup {t} \cup { u \in Threads : Busy(u) }
                     ELSE overlapped \ {t}
    /\ UNCHANGED <<phase, cfg, concepts, syncs, flow_log, emitted, lock, clock,
                   prov, fired, registered, assign>>

\* the name checked after the lookup, and the method found called
QueryOutcome_LookupFirst(cs, concept, qname) ==
    IF concept \notin DOMAIN cs THEN "KeyError"
    ELSE IF qname \in QueriesOf(cs[concept])
            \/ (qname[1] = "" /\ qname[2] \in ActionsOf(cs[concept]))
    THEN "answered"
    ELSE IF qname[1] # "_" THEN "InvalidQuery"
    ELSE "AttributeError"

\* a query waiting until no thread holds the lock
QueryMayRun_WhenLockFree(l) == l = NoThread

\* Engine.query (lines 92 to 93) has no with self._lock: a query runs
\* whoever holds the lock
QueryMayRun(l) == TRUE

\* Engine.query, Concept.query: self.concepts[concept] (KeyError), the prefix
\* check (ValueError, the InvalidQuery of the specification), getattr
\* (AttributeError), and only then the provider's method
QueryOutcome(cs, concept, qname) ==
    IF concept \notin DOMAIN cs THEN "KeyError"
    ELSE IF qname[1] # "_" THEN "InvalidQuery"
    ELSE IF qname \notin QueriesOf(cs[concept]) THEN "AttributeError"
    ELSE "answered"

\* a thread calls Engine.query(concept, qname); "answered" says the
\* provider's method ran
Query(t) ==
    /\ phase = "run"
    /\ ~Busy(t)
    /\ calls < CallBound(cfg)
    /\ calls = 0 => t = "t1"
    /\ QueryMayRun(lock)
    /\ \E q \in TopQueries(cfg) :
          result' = [result EXCEPT ![t] =
                        [status |-> QueryOutcome(concepts, q[1], q[2]),
                         concept |-> q[1], qname |-> q[2]]]
    /\ calls' = calls + 1
    /\ UNCHANGED <<phase, cfg, concepts, syncs, flow_log, emitted, lock, clock,
                   prov, stack, fired, registered, overlapped, assign>>

\* with self._lock: (line 82)
Acquire(t) ==
    /\ Busy(t)
    /\ Top(t).pc = "call"
    /\ lock = NoThread
    /\ lock' = LockAfterAcquire(t)
    /\ stack' = [stack EXCEPT ![t] = [@ EXCEPT ![Len(@)] = [Top(t) EXCEPT !.pc = "locked"]]]
    /\ UNCHANGED <<phase, cfg, concepts, syncs, flow_log, emitted, clock, prov,
                   result, fired, calls, registered, overlapped, assign>>

\* lines 83 to 88 with a dispatch that succeeds: start_flow, perform, the
\* record, the append; the lock is released on leaving the block
DispatchOk(t) ==
    /\ Busy(t)
    /\ Top(t).pc = "locked"
    /\ CanPerform(concepts, Top(t).concept, Top(t).action)
    /\ ~PerformRaises(prov, concepts, Top(t).concept, Top(t).action, Top(t).input)
    /\ LET a == Top(t)
           f == IF a.flow = 0 THEN Len(flow_log) + 1 ELSE a.flow
           old == IF f \in DOMAIN flow_log THEN flow_log[f] ELSE << >>
           id == <<f, Len(old) + 1>>
       IN \E now \in TimeNow :
          \E o \in Outcomes(prov, concepts, a.concept, a.action, a.input) :
            /\ clock' = now
            /\ flow_log' = DictSet(flow_log, f,
                   Appended(old, ActionRecord(id, a.concept, a.action, a.input, o.out, f, now)))
            /\ prov' = o.prov
            /\ stack' = [stack EXCEPT ![t] = [@ EXCEPT ![Len(@)] =
                            [a EXCEPT !.flow = f, !.rec = id, !.pc = "pass"]]]
    /\ lock' = LockAfterAppend(t)
    /\ UNCHANGED <<phase, cfg, concepts, syncs, emitted, result, fired, calls, registered, overlapped, assign>>

\* the key of the effect whose dispatch raised taken out of the set again
EmittedAfterRaise_Removed(em, stk) ==
    IF Len(stk) >= 2
    THEN LET a == stk[Len(stk)]
         IN [em EXCEPT ![a.flow] = @ \ {CanonKey(a.concept, a.action, a.input)}]
    ELSE em

\* lines 112 to 113: emitted.add(key) precedes self.invoke(...) and nothing
\* catches what the invoke raises: the set keeps the key
EmittedAfterRaise(em, stk) == em

\* lines 83 to 86 with a dispatch that raises (KeyError for the provider,
\* AttributeError for the operation): the with-block releases the lock and
\* the exception leaves every invoke of the thread, none of them catches it
DispatchFail(t) ==
    /\ Busy(t)
    /\ Top(t).pc = "locked"
    /\ \/ ~CanPerform(concepts, Top(t).concept, Top(t).action)
       \/ PerformRaises(prov, concepts, Top(t).concept, Top(t).action, Top(t).input)
       \/ PerformMayRaise(prov, concepts, Top(t).concept, Top(t).action)
    /\ lock' = LockAfterRaise(t)
    /\ stack' = [stack EXCEPT ![t] = << >>]
    /\ result' = [result EXCEPT ![t] =
                    [status |-> "raised", depth |-> Len(stack[t]),
                     flow |-> Top(t).flow, rec |-> stack[t][1].rec,
                     loglen |-> IF Top(t).flow \in DOMAIN flow_log
                                THEN Len(flow_log[Top(t).flow]) ELSE 0,
                     passes |-> stack[t][1].passes, total |-> 0]]
    /\ emitted' = EmittedAfterRaise(emitted, stack[t])
    /\ UNCHANGED <<phase, cfg, concepts, syncs, flow_log, clock, prov,
                   fired, calls, registered, overlapped, assign>>

\* lines 97 to 102: a pass starts; under the lock the log is copied and the
\* flow's emitted-set is created if absent; a new Frame has no bindings
BeginPass(t) ==
    /\ Busy(t)
    /\ Top(t).pc = "pass"
    /\ lock = NoThread
    /\ LET a == Top(t)
       IN Proceed(t, [a EXCEPT !.snap = Snapshot(a.flow), !.env = EmptyDict, !.i = 0,
                               !.pending = << >>, !.progress = FALSE, !.evs = << >>,
                               !.passes = Count(a.passes, 1), !.total = Count(a.total, 1)])
    /\ emitted' = IF Top(t).flow \in DOMAIN emitted THEN emitted
                  ELSE DictSet(emitted, Top(t).flow, {})
    /\ UNCHANGED <<phase, cfg, concepts, syncs, flow_log, lock, clock, prov,
                   fired, calls, registered, overlapped, assign>>

\* lines 104 to 106 for a rule with a guard: the guard queries the providers
\* without the lock
EvalRule(t) ==
    /\ Busy(t)
    /\ Top(t).pc = "rule"
    /\ QueryMayRun(lock)
    /\ \E now \in (IF ReadsClock(syncs[Top(t).i]) THEN TimeNow ELSE {clock}) :
          /\ clock' = now
          /\ Proceed(t, EvalSync(Top(t), Top(t).i, prov, now))
    /\ UNCHANGED <<phase, cfg, concepts, syncs, flow_log, emitted, lock,
                   prov, fired, calls, registered, overlapped, assign>>

\* lines 108 to 111: the key of the next effect is in the emitted-set: continue
EmitSkip(t) ==
    /\ Busy(t)
    /\ Top(t).pc = "emit"
    /\ lock = NoThread
    /\ LET a == Top(t)
           e == Head(a.pending)
       IN /\ AlreadyEmitted(EmittedOf(emitted, a.flow),
                            CanonKey(e.concept, e.action, e.params))
          /\ Proceed(t, [a EXCEPT !.pending = Tail(a.pending)])
    /\ UNCHANGED <<phase, cfg, concepts, syncs, flow_log, emitted, lock, clock,
                   prov, fired, calls, registered, overlapped, assign>>

\* lines 108 to 113: the key is new: it is added under the lock and the effect
\* is invoked on the same flow
EmitInvoke(t) ==
    /\ Busy(t)
    /\ Top(t).pc = "emit"
    /\ lock = NoThread
    /\ LET a == Top(t)
           e == Head(a.pending)
           key == CanonKey(e.concept, e.action, e.params)
           fk == <<a.flow, key>>
       IN /\ ~AlreadyEmitted(EmittedOf(emitted, a.flow), key)
          /\ emitted' = [emitted EXCEPT ![a.flow] = @ \cup {key}]
          /\ fired' = DictSet(fired, fk, IF fk \in DOMAIN fired THEN fired[fk] + 1 ELSE 1)
          /\ stack' = [stack EXCEPT ![t] =
                 Append([@ EXCEPT ![Len(@)] = [a EXCEPT !.pending = Tail(a.pending),
                                                         !.pc = "wait"]],
                        Activation(e, a.flow))]
    /\ UNCHANGED <<phase, cfg, concepts, syncs, flow_log, lock, clock, prov,
                   result, calls, registered, overlapped, assign>>

Next ==
    \/ RegisterConcept
    \/ RegisterSync
    \/ Start
    \/ \E t \in Threads : Call(t)
    \/ \E t \in Threads : Query(t)
    \/ \E t \in Threads : Acquire(t)
    \/ \E t \in Threads : DispatchOk(t)
    \/ \E t \in Threads : DispatchFail(t)
    \/ \E t \in Threads : BeginPass(t)
    \/ \E t \in Threads : EvalRule(t)
    \/ \E t \in Threads : EmitSkip(t)
    \/ \E t \in Threads : EmitInvoke(t)

Spec == Init /\ [][Next]_vars

\* the engine as constructed, for one of the scenario runs
ScenarioInit ==
    /\ phase = "setup"
    /\ cfg \in Scenarios
    /\ concepts = << >>
    /\ syncs = << >>
    /\ flow_log = << >>
    /\ emitted = << >>
    /\ lock = NoThread
    /\ clock = 0
    /\ prov = NoProv
    /\ stack = [t \in Threads |-> << >>]
    /\ result = [t \in Threads |-> NoResult]
    /\ fired = << >>
    /\ calls = 0
    /\ registered = << >>
    /\ overlapped = {}
    /\ assign = NoAssign

ScenarioSpec == ScenarioInit /\ [][Next]_vars

\* what a thread inside invoke does next
Step(t) ==
    \/ Acquire(t)
    \/ DispatchOk(t)
    \/ DispatchFail(t)
    \/ BeginPass(t)
    \/ EvalRule(t)
    \/ EmitSkip(t)
    \/ EmitInvoke(t)

\* every thread that can run is run by the scheduler.  The runs start with
\* the clock at its last value: no rule of these runs reads a timestamp, and
\* the runs differ in their timestamps only
FairSpec == InitAt(MaxClock) /\ [][Next]_vars /\ \A t \in Threads : WF_vars(Step(t))

----------------------------------------------------------------------------
(* Associator.assign (src/concepts.py lines 132 to 181), one call *)

\* the classes a box may carry: the two assign takes for a phone, person,
\* and one it ignores
Classes == {"person", "cell phone", "mobile phone", "chair"}

\* thresholds.get("tIoU"), thresholds.get("tDist") of Associate_then, in
\* hundredths
TIoU == 5
TDist == 20

\* what the geometry of one phone and one person comes to, in hundredths:
\* inside (the phone's centre lies in the torso band; then iou is not
\* computed, 0.0, and the distance to the band is 0), iou, dist
Metrics ==
    { [inside |-> TRUE, iou |-> 0, dist |-> 0] }
    \cup { [inside |-> FALSE, iou |-> i, dist |-> d] : i \in {0, 10}, d \in {10, 30} }

\* the positions in boxes of the boxes of a class among cs, in order
RECURSIVE OfClass(_, _, _)
OfClass(boxes, cs, n) ==
    IF n > Len(boxes) THEN << >>
    ELSE (IF boxes[n] \in cs THEN << n >> ELSE << >>) \o OfClass(boxes, cs, n + 1)

\* line 159: if inside or iou >= t_iou or dist <= t_dist_norm
Accepted(m) == m.inside \/ m.iou >= TIoU \/ m.dist <= TDist

\* line 161: cost = (0.0 if inside else 1.0) + dist - 0.2*iou
Cost(m) == (IF m.inside THEN 0 ELSE 100) + m.dist - (m.iou \div 5)

\* lines 151 to 162: the loops over phones and persons, from phone hi and
\* person pi on: (cost, hi, pi) appended for every accepted pair
RECURSIVE CandidatesFrom(_, _, _, _, _)
CandidatesFrom(metric, hi, pi, nh, np) ==
    IF hi > nh THEN << >>
    ELSE IF pi > np THEN CandidatesFrom(metric, hi + 1, 1, nh, np)
    ELSE (IF Accepted(metric[<<hi, pi>>])
          THEN << <<Cost(metric[<<hi, pi>>]), hi, pi>> >> ELSE << >>)
         \o CandidatesFrom(metric, hi, pi + 1, nh, np)

\* c put behind every element whose cost is not greater
RECURSIVE InsertByCost(_, _)
InsertByCost(sorted, c) ==
    IF sorted = << >> THEN << c >>
    ELSE IF c[1] < Head(sorted)[1] THEN << c >> \o sorted
    ELSE << Head(sorted) >> \o InsertByCost(Tail(sorted), c)

\* candidates.sort(key=lambda x: x[0]): ascending cost, equal costs in
\* their order of insertion (list.sort is stable)
RECURSIVE SortByCost(_)
SortByCost(cands) ==
    IF cands = << >> THEN << >>
    ELSE InsertByCost(SortByCost(SubSeq(cands, 1, Len(cands) - 1)), cands[Len(cands)])

\* no pair refused
Conflicts_Never(hi, pi, used_phones, used_persons) == FALSE

\* line 170: if hi in used_phones or pi in used_persons: continue
Conflicts(hi, pi, used_phones, used_persons) ==
    hi \in used_phones \/ pi \in used_persons

\* the call as it starts, for boxes of those classes and that geometry
AssignCall(boxes, metric) ==
    [pc |-> "start", boxes |-> boxes, metric |-> metric,
     persons |-> << >>, phones |-> << >>, cand |-> << >>, k |-> 0,
     used_phones |-> {}, used_persons |-> {}, matches |-> << >>,
     using |-> << >>, count |-> 0]

\* a call of Associator.assign with up to MaxBoxes boxes of any classes and
\* any geometry of its phone and person pairs; no engine is running
AssignInit ==
    /\ phase = "assign"
    /\ cfg = 0
    /\ concepts = << >>
    /\ syncs = << >>
    /\ flow_log = << >>
    /\ emitted = << >>
    /\ lock = NoThread
    /\ clock = 0
    /\ prov = NoProv
    /\ stack = [t \in Threads |-> << >>]
    /\ result = [t \in Threads |-> NoResult]
    /\ fired = << >>
    /\ calls = 0
    /\ registered = << >>
    /\ overlapped = {}
    /\ \E n \in 0..MaxBoxes : \E boxes \in [1..n -> Classes] :
          \E metric \in [(1..Len(OfClass(boxes, {"cell phone", "mobile phone"}, 1)))
                           \X (1..Len(OfClass(boxes, {"person"}, 1))) -> Metrics] :
             assign = AssignCall(boxes, metric)

EngineUnchanged ==
    UNCHANGED <<phase, cfg, concepts, syncs, flow_log, emitted, lock, clock, prov,
                stack, result, fired, calls, registered, overlapped>>

\* lines 133 to 162: persons and phones filtered by class, the candidates
AssignBuild ==
    /\ assign.pc = "start"
    /\ LET persons == OfClass(assign.boxes, {"person"}, 1)
           phones == OfClass(assign.boxes, {"cell phone", "mobile phone"}, 1)
       IN assign' = [assign EXCEPT
             !.pc = "built", !.persons = persons, !.phones = phones,
             !.cand = CandidatesFrom(assign.metric, 1, 1, Len(phones), Len(persons))]
    /\ EngineUnchanged

\* line 165: candidates.sort(key=lambda x: x[0])
AssignSort ==
    /\ assign.pc = "built"
    /\ assign' = [assign EXCEPT !.pc = "loop", !.cand = SortByCost(@), !.k = 1]
    /\ EngineUnchanged

\* lines 172 to 174: the pair is taken
AssignTake ==
    /\ assign.pc = "loop" /\ assign.k <= Len(assign.cand)
    /\ LET hi == assign.cand[assign.k][2]
           pi == assign.cand[assign.k][3]
       IN /\ ~Conflicts(hi, pi, assign.used_phones, assign.used_persons)
          /\ assign' = [assign EXCEPT !.k = @ + 1,
                                      !.used_phones = @ \cup {hi},
                                      !.used_persons = @ \cup {pi},
                                      !.matches = Append(@, <<hi, pi>>)]
    /\ EngineUnchanged

\* lines 170 to 171: continue
AssignSkip ==
    /\ assign.pc = "loop" /\ assign.k <= Len(assign.cand)
    /\ Conflicts(assign.cand[assign.k][2], assign.cand[assign.k][3],
                 assign.used_phones, assign.used_persons)
    /\ assign' = [assign EXCEPT !.k = @ + 1]
    /\ EngineUnchanged

\* line 176: using = [persons[pi] for _, pi in matches]; Counter.update then
\* takes len(using) (lines 196 to 198)
AssignFinish ==
    /\ assign.pc = "loop" /\ assign.k > Len(assign.cand)
    /\ LET using == [i \in 1..Len(assign.matches) |-> assign.persons[assign.matches[i][2]]]
       IN assign' = [assign EXCEPT !.pc = "done", !.using = using,
                                   !.count = CounterUpdate([using |-> L(Len(using))])["count"][2]]
    /\ EngineUnchanged

AssignNext ==
    \/ AssignBuild
    \/ AssignSort
    \/ AssignTake
    \/ AssignSkip
    \/ AssignFinish

AssignSpec == AssignInit /\ [][AssignNext]_vars

----------------------------------------------------------------------------
(* Properties *)

\* every invoke that has not returned, of every thread
Activations == UNION { { stack[t][n] : n \in 1..Len(stack[t]) } : t \in Threads }

Idle == \A t \in Threads : ~Busy(t)

\* C1: in every flow, rule evaluation has invoked each canonical key at most
\* once, and exactly once as soon as the key is in the flow's emitted-set,
\* however often the rule's condition was triggered again
EffectOncePerKey ==
    /\ \A fk \in DOMAIN fired : fired[fk] = 1
    /\ \A fk \in DOMAIN fired : fk[1] \in DOMAIN emitted /\ fk[2] \in emitted[fk[1]]
    /\ \A f \in DOMAIN emitted : \A key \in emitted[f] : <<f, key>> \in DOMAIN fired

\* two top-level invokes with the same trigger have returned on one flow, and
\* an effect was invoked by the rules of that flow
RetriggeredOnce ==
    /\ result["t1"].status = "returned"
    /\ result["t2"].status = "returned"
    /\ result["t1"].flow = result["t2"].flow
    /\ LET f == result["t1"].flow
           r1 == flow_log[f][result["t1"].rec[2]]
           r2 == flow_log[f][result["t2"].rec[2]]
       IN /\ r1.concept = r2.concept /\ r1.action = r2.action /\ r1.input = r2.input
          /\ emitted[f] # {}
          /\ \A key \in emitted[f] : fired[<<f, key>>] = 1

\* the records of a snapshot that have the provider and operation of a pattern
OfPattern(snap, pat) ==
    { n \in 1..Len(snap) : snap[n].concept = pat.concept /\ snap[n].action = pat.action }

\* the literal input terms of a pattern all equal the record's inputs
LiteralsHold(rec, pat) ==
    \A j \in 1..Len(pat.inputs) :
        IsPlaceholder(pat.inputs[j][2])
        \/ PyEq(DictGet(rec.input, pat.inputs[j][1]), pat.inputs[j][2])

\* the output keys a pattern binds are all in the record's output
OutputsPresent(rec, pat) ==
    \A j \in 1..Len(pat.outputs) : pat.outputs[j][1] \in DOMAIN rec.output

\* C3: the record a when-pattern is tested against is the most recent record
\* of its provider and operation in the snapshot; a rule matches only if that
\* record satisfies the pattern, whatever older records would do
MostRecentRecordUsed ==
    \A a \in Activations : \A e \in 1..Len(a.evs) :
        LET ev == a.evs[e]
            when == syncs[ev.rule].when
        IN /\ \A p \in 1..Len(ev.used) :
                 LET same == OfPattern(a.snap, when[p])
                 IN IF same = {} THEN ev.used[p] = 0
                    ELSE ev.used[p] \in same /\ \A n \in same : n <= ev.used[p]
           /\ ev.ok =>
                 \A p \in 1..Len(when) :
                    LET same == OfPattern(a.snap, when[p])
                    IN \E n \in same :
                          /\ \A m \in same : m <= n
                          /\ LiteralsHold(a.snap[n], when[p])

\* a rule was rejected on the most recent record of its pattern although an
\* older record of that provider and operation satisfies the pattern
OlderRecordWouldMatch ==
    \E a \in Activations : \E e \in 1..Len(a.evs) :
        LET ev == a.evs[e]
            pat == syncs[ev.rule].when[1]
        IN /\ ~ev.ok
           /\ Len(ev.used) = 1
           /\ ev.used[1] # 0
           /\ ~LiteralsHold(a.snap[ev.used[1]], pat)
           /\ \E n \in OfPattern(a.snap, pat) :
                 n < ev.used[1] /\ LiteralsHold(a.snap[n], pat)

\* C4: every record of a flow's log carries that flow's token, and every
\* frame snapshot built for a flow holds records of that flow only
FlowsIsolated ==
    /\ \A f \in DOMAIN flow_log : \A n \in 1..Len(flow_log[f]) : flow_log[f][n].flow = f
    /\ \A a \in Activations : \A n \in 1..Len(a.snap) : a.snap[n].flow = a.flow

\* two threads are evaluating at the same time, each with a snapshot of its
\* own flow
TwoFlowsEvaluating ==
    /\ Busy("t1") /\ Busy("t2")
    /\ stack["t1"][1].flow # 0 /\ stack["t2"][1].flow # 0
    /\ stack["t1"][1].flow # stack["t2"][1].flow
    /\ Top("t1").snap # << >> /\ Top("t2").snap # << >>
    /\ Len(Top("t1").snap) > 1

\* C2: every invoke terminates: a thread inside invoke, whatever cascade its
\* call started, leaves it; the invoke has then returned its record, unless a
\* dispatch failed, which no dispatch of a ring of rules does
InvokeTerminates ==
    \A t \in Threads :
        Busy(t) ~> /\ ~Busy(t)
                   /\ result[t].status \in {"returned", "raised"}
                   /\ cfg >= 1 => result[t].status = "returned"

\* an invoke has returned after a cascade of nested evaluations
CascadeReturned ==
    \E t \in Threads : result[t].status = "returned" /\ result[t].total >= 5

\* the dispatch a thread is about to make under the lock cannot be performed
FailingDispatch(t) ==
    /\ Busy(t)
    /\ Top(t).pc = "locked"
    /\ ~(Top(t).concept \in DOMAIN concepts
         /\ Top(t).action \in ActionsOf(concepts[Top(t).concept]))

\* C5: an invoke whose dispatch fails appends no record and leaves the lock
\* free: the step of the failing dispatch changes no flow's log, and a thread
\* whose invoke raised does not hold the lock
FailedDispatchLeavesNoTrace ==
    /\ [](\A t \in Threads : result[t].status = "raised" /\ ~Busy(t) => lock # t)
    /\ [][\A t \in Threads :
            FailingDispatch(t) /\ stack'[t] # stack[t] =>
                /\ flow_log' = flow_log
                /\ lock' = NoThread
                /\ result'[t].status = "raised"]_vars

\* after an invoke failed on a flow, another invoke on that flow appended its
\* record and returned
LaterInvokeSucceeds ==
    \E t, u \in Threads :
        /\ result[t].status = "raised"
        /\ result[t].flow \in DOMAIN flow_log
        /\ result[u].status = "returned"
        /\ result[u].flow = result[t].flow
        /\ result[u].rec[2] > result[t].loglen

\* C6: a failing dispatch aborts only the invocation that failed: an invoke
\* raises to its caller only when its own dispatch failed, never because an
\* effect invoked during its cascade failed
OnlyFailingInvokeAborted ==
    \A t \in Threads : result[t].status = "raised" => result[t].depth = 1

\* the thread is at a point where it takes the lock
AtLockRequest(t) == Busy(t) /\ Top(t).pc \in {"call", "pass", "emit"}

\* the thread is inside the dispatch and append of its innermost invoke, or
\* evaluating a guard: it needs no lock to go on
RunsFreely(t) == Busy(t) /\ Top(t).pc \in {"locked", "rule"}

\* C7: no deadlock: the lock is held only by a thread inside the dispatch and
\* append of its innermost invoke, a thread about to take the lock never holds
\* it, and a thread that waits for the lock waits for a thread that needs no
\* lock to reach the point where it releases it
NoDeadlock ==
    /\ lock \in Threads \cup {NoThread}
    /\ \A t \in Threads : lock = t => Busy(t) /\ Top(t).pc = "locked"
    /\ \A t \in Threads : AtLockRequest(t) => lock # t
    /\ \A t \in Threads : Busy(t) =>
          \/ RunsFreely(t)
          \/ AtLockRequest(t) /\ lock = NoThread
          \/ AtLockRequest(t) /\ lock \in Threads \ {t} /\ RunsFreely(lock)

\* a thread holds the lock inside a nested invoke while the other thread,
\* itself inside a cascade, waits for it
NestedInvokeHoldsLock ==
    \E t, u \in Threads :
        /\ t # u
        /\ lock = t
        /\ Len(stack[t]) >= 3
        /\ Len(stack[u]) >= 2
        /\ AtLockRequest(u)

\* the greatest element of a non-empty set of numbers
Greatest(set) == CHOOSE n \in set : \A m \in set : m <= n

\* variable v is bound again after input term j of pattern p of a rule
BoundLater(when, p, j, v) ==
    \/ \E j2 \in (j + 1)..Len(when[p].inputs) :
          IsPlaceholder(when[p].inputs[j2][2]) /\ VarOf(when[p].inputs[j2][2]) = v
    \/ \E p2 \in p..Len(when) : \E j2 \in 1..Len(when[p2].outputs) :
          when[p2].outputs[j2][2] = v
    \/ \E p2 \in (p + 1)..Len(when) : \E j2 \in 1..Len(when[p2].inputs) :
          IsPlaceholder(when[p2].inputs[j2][2]) /\ VarOf(when[p2].inputs[j2][2]) = v

\* C8: a placeholder input term never causes a mismatch and binds its
\* variable to the record's actual input value, whatever was bound before; a
\* literal input term makes the rule not match when the actual value differs
PlaceholderBindsLiteralRejects ==
    \A a \in Activations : \A e \in 1..Len(a.evs) :
        LET ev == a.evs[e]
            when == syncs[ev.rule].when
            rec(p) == a.snap[Greatest(OfPattern(a.snap, when[p]))]
        IN /\ ev.ok <=>
                 \A p \in 1..Len(when) :
                    /\ OfPattern(a.snap, when[p]) # {}
                    /\ LiteralsHold(rec(p), when[p])
                    /\ OutputsPresent(rec(p), when[p])
           /\ ev.ok =>
                 \A p \in 1..Len(when) : \A j \in 1..Len(when[p].inputs) :
                    LET term == when[p].inputs[j][2]
                    IN IsPlaceholder(term) /\ ~BoundLater(when, p, j, VarOf(term)) =>
                         /\ VarOf(term) \in DOMAIN ev.post
                         /\ ev.post[VarOf(term)] = DictGet(rec(p).input, when[p].inputs[j][1])

\* in one pass a placeholder replaced a binding by a value of another type and
\* a literal rejected the most recent record of its pattern
BindingOverwritten ==
    \E a \in Activations : \E e1, e2 \in 1..Len(a.evs) :
        LET ev == a.evs[e1]
            no == a.evs[e2]
        IN /\ ev.ok
           /\ \E p \in 1..Len(syncs[ev.rule].when) :
                \E j \in 1..Len(syncs[ev.rule].when[p].inputs) :
                  LET term == syncs[ev.rule].when[p].inputs[j][2]
                  IN /\ IsPlaceholder(term)
                     /\ VarOf(term) \in DOMAIN ev.pre
                     /\ ev.pre[VarOf(term)][1] # ev.post[VarOf(term)][1]
           /\ ~no.ok
           /\ Len(no.used) = 1 /\ no.used[1] # 0
           /\ ~LiteralsHold(a.snap[no.used[1]], syncs[no.rule].when[1])

LogsTimeOrdered ==
    \A f \in DOMAIN flow_log : \A n \in 1..(Len(flow_log[f]) - 1) :
        flow_log[f][n].t <= flow_log[f][n + 1].t

LogsOnlyGrow ==
    \A f \in DOMAIN flow_log :
        /\ f \in DOMAIN flow_log'
        /\ Len(flow_log'[f]) >= Len(flow_log[f])
        /\ SubSeq(flow_log'[f], 1, Len(flow_log[f])) = flow_log[f]

\* C9: every flow's log only grows at its end (each earlier log is a prefix
\* of each later one) and its timestamps never decrease in log order
AppendOnlyTimeOrdered == [][LogsOnlyGrow]_vars /\ []LogsTimeOrdered

\* a flow's log holds records of two threads, two with equal timestamps and
\* two with increasing ones
LogOfTwoThreads ==
    \E f \in DOMAIN flow_log :
        /\ result["t1"].status = "returned" /\ result["t1"].flow = f
        /\ result["t2"].status = "returned" /\ result["t2"].flow = f
        /\ \E n \in 1..(Len(flow_log[f]) - 1) : flow_log[f][n].t < flow_log[f][n + 1].t
        /\ \E n \in 1..(Len(flow_log[f]) - 1) : flow_log[f][n].t = flow_log[f][n + 1].t

\* the only invoke of a run with a ring of cfg rules has returned
RingRunDone(t) == cfg >= 1 /\ calls = 1 /\ result[t].status = "returned"

\* C10 as stated: with k mutually-triggering rules the evaluation started by
\* one invoke halts within k passes
RingHaltsWithinKPasses ==
    \A t \in Threads : RingRunDone(t) => result[t].passes <= cfg

\* C10 as amended: the evaluation started by the invoke halts after exactly
\* two passes, one that fires and one that finds nothing new, and the cascade
\* runs 2k+1 passes in all, the nested evaluations included
RingHaltsInTwoPasses ==
    \A t \in Threads : RingRunDone(t) =>
        /\ result[t].passes = 2
        /\ result[t].total = 2 * cfg + 1
        /\ result[t].total < PassCap

\* the invoke on the largest ring has returned, every rule having fired
LargestRingDone ==
    /\ cfg = MaxK
    /\ RingRunDone("t1")
    /\ Len(flow_log[1]) = cfg + 1
    /\ Cardinality(emitted[1]) = cfg

\* the threads inside the dispatch and append of an invoke
Dispatching == { t \in Threads : Busy(t) /\ Top(t).pc = "locked" }

\* the flows whose log a step changes
LogsChanged ==
    { f \in DOMAIN flow_log' : f \notin DOMAIN flow_log \/ flow_log'[f] # flow_log[f] }

\* a step that changes the logs is the dispatch of the one thread holding the
\* lock: it appends that thread's record at the end of one log
OneDispatchAtATime ==
    LogsChanged # {} =>
        /\ Cardinality(LogsChanged) = 1
        /\ \E t \in Dispatching : \E f \in LogsChanged :
              LET old == IF f \in DOMAIN flow_log THEN flow_log[f] ELSE << >>
                  new == flow_log'[f]
              IN /\ lock = t
                 /\ Len(new) = Len(old) + 1
                 /\ SubSeq(new, 1, Len(old)) = old
                 /\ new[Len(new)].concept = Top(t).concept
                 /\ new[Len(new)].action = Top(t).action
                 /\ new[Len(new)].input = Top(t).input

\* C15: at most one thread at a time is inside the dispatch and append of
\* invoke, the one holding the lock, and every change of the logs is the
\* append of that thread's record at the end of a log: the records are in the
\* order in which their dispatches ran
DispatchSerialized ==
    /\ [](Cardinality(Dispatching) <= 1 /\ \A t \in Dispatching : lock = t)
    /\ [][OneDispatchAtATime]_vars

\* a thread dispatches under the lock while the other, which has already
\* appended a record to another flow, asks for the lock
DispatchWhileOtherWaits ==
    \E t, u \in Threads :
        /\ t # u
        /\ Dispatching = {t}
        /\ Busy(u) /\ Top(u).pc = "call"
        /\ Len(stack[u]) >= 2
        /\ stack[u][1].flow # stack[t][1].flow
        /\ stack[t][1].flow \in DOMAIN flow_log

\* the guard of a matching rule is evaluated in this step by thread t
GuardStep(t) ==
    /\ Busy(t)
    /\ Top(t).pc = "rule"
    /\ stack'[t] # stack[t]

\* the guard of the step vetoes the rule: nothing is invoked, the
\* emitted-sets and the logs are left as they are
VetoChangesNothing(t) ==
    GuardStep(t) /\ ~WhereHolds(syncs[Top(t).i], prov, MatchWhen(syncs[Top(t).i], Top(t).snap, Top(t).env).env, Top(t).snap).ok =>
        /\ emitted' = emitted
        /\ flow_log' = flow_log
        /\ fired' = fired
        /\ Len(stack'[t]) <= Len(stack[t])
        /\ Len(stack'[t]) = Len(stack[t]) /\ Top(t).i = Len(syncs) =>
              stack'[t][Len(stack[t])].pending = << >>

\* every rule evaluation of a pass: a rule fired only if all its patterns
\* matched, each on the most recent record of its provider and operation; a
\* rule without a guard fires when it matched; effects are pending only for a
\* rule that fired
FiredOnlyIfMatched ==
    \A a \in Activations :
        /\ \A e \in 1..Len(a.evs) :
              LET ev == a.evs[e]
                  when == syncs[ev.rule].when
              IN /\ ev.fire => ev.ok
                 /\ ev.fire =>
                       \A p \in 1..Len(when) :
                          /\ OfPattern(a.snap, when[p]) # {}
                          /\ ev.used[p] = Greatest(OfPattern(a.snap, when[p]))
                          /\ LiteralsHold(a.snap[ev.used[p]], when[p])
                          /\ OutputsPresent(a.snap[ev.used[p]], when[p])
                 /\ syncs[ev.rule].where = "none" => (ev.fire <=> ev.ok)
        /\ a.pending # << >> => a.evs # << >> /\ a.evs[Len(a.evs)].fire

\* C19: the effect producer of a rule is called only when all its patterns
\* matched and its guard, if any, returned true; the guard is called only
\* after the patterns matched; a guard returning false leads to no invocation
\* and no change of the emitted-set
EffectsOnlyAfterMatchAndGuard ==
    /\ []FiredOnlyIfMatched
    /\ [][\A t \in Threads : VetoChangesNothing(t)]_vars

\* in one pass a rule matched and was vetoed by its guard, after another rule
\* had matched and fired
GuardVetoed ==
    \E a \in Activations : \E e1, e2 \in 1..Len(a.evs) :
        /\ e1 < e2
        /\ a.evs[e1].fire
        /\ a.evs[e2].ok /\ ~a.evs[e2].fire

\* the rules as registered are the list the passes go through
RegisteredInOrder ==
    /\ Len(syncs) <= Len(RuleSet(cfg))
    /\ \A i \in 1..Len(syncs) : syncs[i] = RuleSet(cfg)[i]

\* the record r is the record of an invoke of one of the effects of a rule
OfAnEffect(r, sync) ==
    /\ r[1] \in DOMAIN flow_log /\ r[2] \in 1..Len(flow_log[r[1]])
    /\ \E j \in 1..Len(sync.then) :
          /\ flow_log[r[1]][r[2]].concept = sync.then[j].concept
          /\ flow_log[r[1]][r[2]].action = sync.then[j].action

\* the pass of an activation has tested rules 1, 2, ... in that order and is
\* at rule i; the invokes it has made are those of rules that fired, and
\* their records are in the flow's log in the order of the rules
PassInOrder(a) ==
    /\ \A e \in 1..Len(a.evs) : a.evs[e].rule = e
    /\ a.pc \in {"rule"} => a.i = Len(a.evs) + 1
    /\ a.pc \in {"emit", "wait"} => a.i = Len(a.evs)
    /\ \A e \in 1..Len(a.evs) : \A k \in 1..Len(a.evs[e].invoked) :
          /\ a.evs[e].fire
          /\ a.evs[e].invoked[k][1] = a.flow
          /\ OfAnEffect(a.evs[e].invoked[k], RuleSet(cfg)[e])
    /\ \A e1, e2 \in 1..Len(a.evs) :
          e1 < e2 => \A k1 \in 1..Len(a.evs[e1].invoked), k2 \in 1..Len(a.evs[e2].invoked) :
                        a.evs[e1].invoked[k1][2] < a.evs[e2].invoked[k2][2]

\* C11: in every pass the rules are tested in registration order: the effects
\* a pass invokes are invoked, and their records appended, in the order in
\* which their rules were registered, whatever the order of the trigger
\* records in the log
EffectsInRegistrationOrder ==
    /\ RegisteredInOrder
    /\ \A a \in Activations : PassInOrder(a)

\* one pass has invoked the effect of the first rule and then that of the
\* second, and the trigger of the first rule was appended after that of the
\* second
LaterTriggerFiredFirst ==
    \E a \in Activations :
        /\ Len(a.evs) >= 2
        /\ a.evs[1].invoked # << >> /\ a.evs[2].invoked # << >>
        /\ a.evs[1].used[1] > a.evs[2].used[1]
        /\ a.evs[2].used[1] > 0

\* a step in which thread t calls Engine.query
QueryStep(t) == ~Busy(t) /\ ~Busy(t)' /\ result'[t] # result[t]

\* what a call of Engine.query leaves alone, and how it ends for a name
\* without the prefix on a registered provider
QueryInert(t) ==
    QueryStep(t) =>
        /\ flow_log' = flow_log /\ emitted' = emitted /\ fired' = fired
        /\ stack' = stack /\ prov' = prov /\ lock' = lock
        /\ (result'[t].concept \in DOMAIN concepts /\ result'[t].qname[1] # "_")
              => result'[t].status = "InvalidQuery"
        /\ result'[t].status = "answered" => result'[t].qname[1] = "_"

\* C16: a query whose name lacks the "_" prefix fails with InvalidQuery
\* before any method of the provider is looked up or run, also when the
\* provider has an operation of that name; no query appends a record, changes
\* an emitted-set or starts a rule evaluation
QueryChecksPrefixAndIsInert == [][\A t \in Threads : QueryInert(t)]_vars

\* a query by the name of an operation of the provider has failed, in a run
\* that has a record in a log
OperationRefusedAsQuery ==
    \E t \in Threads :
        /\ result[t].status = "InvalidQuery"
        /\ result[t].qname[1] = ""
        /\ result[t].qname[2] \in ActionsOf(concepts[result[t].concept])
        /\ flow_log # << >>

\* C17: every register_concept call made so far still has its provider
\* dispatched to under its name, none removed or replaced, and the rule list
\* holds the registered rules in registration order
RegistrationAppendOnly ==
    /\ \A k \in 1..Len(registered) :
          /\ registered[k][1] \in DOMAIN concepts
          /\ concepts[registered[k][1]] = registered[k][2]
    /\ \A i \in 1..Len(syncs) : i <= Len(RuleSet(cfg)) /\ syncs[i] = RuleSet(cfg)[i]

\* how many invokes of an operation of a provider the rule evaluations of
\* flow f have made
Invoked(f, concept, action) ==
    Cardinality({ fk \in DOMAIN fired :
                    fk[1] = f /\ fk[2][1] = concept /\ fk[2][2] = action })

\* the top-level invoke of thread t has returned and its record is a tick
\* of that key
TickReturned(t, key) ==
    /\ result[t].status = "returned"
    /\ flow_log[result[t].rec[1]][result[t].rec[2]].concept = "Ticker"
    /\ flow_log[result[t].rec[1]][result[t].rec[2]].input["key"] = S(key)

RuleIndex(name) == CHOOSE i \in 1..Len(syncs) : syncs[i].name = name

\* the records of Detector.detect in the log of flow f whose output has the
\* key detections
WithDetections(f) ==
    { n \in 1..Len(flow_log[f]) :
        /\ flow_log[f][n].concept = "Detector" /\ flow_log[f][n].action = "detect"
        /\ "detections" \in DOMAIN flow_log[f][n].output }

\* the snapshot's latest Detector.detect record has the key detections
LatestHasDetections(snap) ==
    /\ Last(snap, "Detector", "detect") # 0
    /\ "detections" \in DOMAIN snap[Last(snap, "Detector", "detect")].output

\* the top-level invoke of thread t was a Detector.detect, has returned, and
\* its record is the latest detect record of its flow
DetectReturned(t) ==
    /\ result[t].status = "returned"
    /\ flow_log[result[t].rec[1]][result[t].rec[2]].concept = "Detector"
    /\ result[t].rec[2] = Last(flow_log[result[t].flow], "Detector", "detect")

\* C13: the rule AssociateAfterDetect matches exactly when the latest
\* Detector.detect record of the pass has the output key detections; its
\* guard is called only then; Associator.assign is invoked once when the
\* detect that returned has the key, and is never invoked for a detect output
\* without it
AssignOnlyWithDetections ==
    (cfg \in AppRuns /\ phase = "run") =>
        /\ \A a \in Activations :
              /\ \A e \in 1..Len(a.evs) :
                    a.evs[e].rule = RuleIndex("AssociateAfterDetect")
                       => (a.evs[e].ok <=> LatestHasDetections(a.snap))
              /\ (a.pc = "rule" /\ a.i = RuleIndex("AssociateAfterDetect"))
                    => LatestHasDetections(a.snap)
        /\ \A f \in DOMAIN flow_log :
              Invoked(f, "Associator", "assign") <= Cardinality(WithDetections(f))
        /\ \A t \in Threads :
              (DetectReturned(t) /\ result[t].rec[2] \in WithDetections(result[t].flow))
                 => Invoked(result[t].flow, "Associator", "assign") >= 1

\* two detects have returned, each the only record of its provider in its
\* flow: the one with the key detections has its one assign, the one without
\* has none
AssignedWithAndNotWithout ==
    \E t, u \in Threads :
        /\ DetectReturned(t) /\ DetectReturned(u)
        /\ result[t].flow # result[u].flow
        /\ Cardinality(WithDetections(result[t].flow)) = 1
        /\ Invoked(result[t].flow, "Associator", "assign") = 1
        /\ WithDetections(result[u].flow) = {}
        /\ Invoked(result[u].flow, "Associator", "assign") = 0

\* the step in which thread t dispatches an API.respond
RespondStep(t) ==
    /\ Busy(t) /\ Top(t).pc = "locked"
    /\ Top(t).concept = "API" /\ Top(t).action = "respond"
    /\ stack'[t] # stack[t]

\* the dispatch of an API.respond ends with its record, whose output is the
\* request handle, appended to the flow, and the invoke goes on to evaluate
RespondCompletes(t) ==
    RespondStep(t) =>
        LET a == Top(t)
            new == flow_log'[a.flow]
        IN /\ Len(stack'[t]) = Len(stack[t])
           /\ stack'[t][Len(stack[t])].pc = "pass"
           /\ Len(new) = Len(flow_log[a.flow]) + 1
           /\ new[Len(new)].concept = "API" /\ new[Len(new)].action = "respond"
           /\ new[Len(new)].output = [request |-> a.input["request"]]
           /\ result'[t] = result[t]

\* the top-level invoke of thread t was an API.request and has ended
RequestEnded(t) ==
    /\ result[t].status \in {"returned", "raised"}
    /\ result[t].rec # <<0, 0>>
    /\ flow_log[result[t].rec[1]][result[t].rec[2]].concept = "API"

\* C18: a fault raised by the stored callback during API.respond does not
\* leave respond: respond returns its output, its record is appended to the
\* flow, and the API.request invoke whose cascade called respond does not
\* end with an exception
CallbackFaultContained ==
    /\ [][\A t \in Threads : RespondCompletes(t)]_vars
    /\ [](\A t \in Threads : RequestEnded(t) => result[t].status = "returned")

\* a request whose callback raises has been answered: the callback was
\* called, the respond record is in the flow, the request's invoke returned
FaultyCallbackAnswered ==
    \E t \in Threads :
        /\ RequestEnded(t) /\ result[t].status = "returned"
        /\ LET req == flow_log[result[t].rec[1]][result[t].rec[2]]
           IN /\ req.input["callback"] = Callback(1)
              /\ prov.answered[req.output["request"][2]] = 1
              /\ \E n \in 1..Len(flow_log[result[t].flow]) :
                    /\ flow_log[result[t].flow][n].action = "respond"
                    /\ flow_log[result[t].flow][n].output = [request |-> req.output["request"]]

\* one flow has two invokes of Detector.detect
DetectedTwiceInOneFlow ==
    \E f \in DOMAIN flow_log : Invoked(f, "Detector", "detect") >= 2

\* C20: each tick of key detect has Detector.detect run exactly once in its
\* flow, whatever the capture ticker thread does meanwhile: no flow has a
\* second detect, and a detect tick that has returned has had its one
DetectOncePerTick ==
    /\ ~DetectedTwiceInOneFlow
    /\ \A t \in Threads :
          TickReturned(t, "detect") => Invoked(result[t].flow, "Detector", "detect") = 1

\* a pass over the current log of flow f with the current provider state,
\* from rule i on with the bindings env: would it find a rule that matches,
\* whose guard holds and one of whose effects has a key that is not in the
\* flow's emitted-set, at some reading of the clock the pass may get
RECURSIVE PendingFrom(_, _, _)
PendingFrom(f, i, env) ==
    IF i > Len(syncs) THEN FALSE
    ELSE \E w \in { Guarded(syncs[i], prov, m, flow_log[f]) :
                       m \in { MatchWhen(syncs[i], flow_log[f], env) } } :
            \/ /\ w.ok
               /\ \E j \in 1..Len(syncs[i].then) :
                     \E now \in (IF ReadsClock(syncs[i]) THEN TimeNow ELSE {clock}) :
                        LET e == ThenOf(syncs[i], IF ReadsClock(syncs[i])
                                                  THEN Bind(w.env, TimeVar, I(now))
                                                  ELSE w.env)[j]
                        IN CanonKey(e.concept, e.action, e.params) \notin emitted[f]
            \/ PendingFrom(f, i + 1, w.env)

\* a rule whose producer reads the clock matches the log of flow f
ClockReadIn(f) ==
    \E i \in 1..Len(syncs) :
        ReadsClock(syncs[i]) /\ MatchWhen(syncs[i], flow_log[f], EmptyDict).ok

\* the flow is at a fixpoint
AtFixpoint(f) == ~PendingFrom(f, 1, EmptyDict)

\* the step in which the top-level invoke of thread t returns normally
ReturnStep(t) == Busy(t) /\ ~Busy(t)' /\ result'[t].status = "returned"

\* after the step no other thread is inside an invoke on the flow of t's call
NoOtherOnFlow(t) ==
    \A u \in Threads \ {t} : ~(Busy(u)' /\ stack'[u][1].flow = stack[t][1].flow)

\* C14 as stated: when an invoke call returns normally and no other thread is
\* invoking on the same flow, the flow is at a fixpoint
FixpointAtReturn ==
    [][\A t \in Threads :
          (ReturnStep(t) /\ NoOtherOnFlow(t)) => AtFixpoint(result[t].flow)']_vars

\* C14: when an invoke call returns normally, no invoke call of another
\* thread, on any flow, has run while it did, and no rule whose producer
\* reads the clock matches in the flow, the flow is at a fixpoint
FixpointAtReturnWhenAlone ==
    [][\A t \in Threads :
          (ReturnStep(t) /\ t \notin overlapped /\ ~ClockReadIn(result[t].flow)')
             => AtFixpoint(result[t].flow)']_vars

\* the second call of a run has returned from a cascade that ran alone, its
\* flow holds emitted keys and is at a fixpoint
ReturnedAloneAtFixpoint ==
    \E t \in Threads :
        /\ calls = 2
        /\ result[t].status = "returned" /\ t \notin overlapped
        /\ \A u \in Threads : ~Busy(u)
        /\ result[t].rec[2] > 1
        /\ emitted[result[t].flow] # {}
        /\ AtFixpoint(result[t].flow)

\* the key of the effect thread t is about to test against the emitted-set
KeyAtEmit(t) ==
    CanonKey(Head(Top(t).pending).concept, Head(Top(t).pending).action,
             Head(Top(t).pending).params)

\* thread t tests the key of its next effect (lines 109 to 112)
EmitStep(t) == Busy(t) /\ Top(t).pc = "emit" /\ stack'[t] # stack[t]

\* the test and the insertion are one step on the set of the evaluated flow:
\* a key that is in it is skipped and nothing is invoked; a key that is not
\* is put into it and invoked in the same step; no other flow's set is read
\* or changed
TestAndInsert(t) ==
    EmitStep(t) =>
        LET f == Top(t).flow
            key == KeyAtEmit(t)
        IN /\ \A g \in DOMAIN emitted : g # f => emitted'[g] = emitted[g]
           /\ IF key \in emitted[f]
              THEN /\ emitted' = emitted /\ fired' = fired
                   /\ Len(stack'[t]) <= Len(stack[t])
              ELSE /\ emitted'[f] = emitted[f] \cup {key}
                   /\ <<f, key>> \notin DOMAIN fired
                   /\ fired'[<<f, key>>] = 1
                   /\ Len(stack'[t]) = Len(stack[t]) + 1

\* C26: the membership test and the insertion on a flow's emitted-set are
\* one atomic step, so two threads evaluating the same flow together invoke
\* each canonical key at most once in it; the set of one flow never
\* suppresses the key in another flow
EmittedSetAtomicPerFlow ==
    /\ [][\A t \in Threads : TestAndInsert(t)]_vars
    /\ [](\A fk \in DOMAIN fired : fired[fk] <= 1)

\* two threads evaluate the same flow and a rule of each produced the same
\* key: one thread has invoked it and waits for it, the other has found it
\* in the set and skipped it
SameKeyRacedOnOneFlow ==
    \E t, u \in Threads :
        /\ t # u /\ Busy(t) /\ Busy(u)
        /\ stack[t][1].flow = stack[u][1].flow
        /\ Len(stack[t]) >= 2 /\ stack[t][1].pc = "wait"
        /\ LET key == CanonKey(stack[t][2].concept, stack[t][2].action, stack[t][2].input)
               b == stack[u][1]
           IN /\ key \in emitted[b.flow]
              /\ \E n \in 1..Len(b.evs) :
                    /\ b.evs[n].fire /\ b.evs[n].invoked = << >>
                    /\ n = Len(b.evs) => b.pending = << >> /\ b.pc # "wait"
                    /\ \E j \in 1..Len(syncs[b.evs[n].rule].then) :
                          LET e == ThenOf(syncs[b.evs[n].rule], b.evs[n].post)[j]
                          IN CanonKey(e.concept, e.action, e.params) = key

\* the invoke of an effect, made by a rule evaluation of thread t, raises
NestedDispatchFails(t) ==
    /\ Busy(t) /\ Len(stack[t]) >= 2 /\ Top(t).pc = "locked"
    /\ stack'[t] = << >> /\ result'[t].status = "raised"

\* the key of an activation
KeyOf(a) == CanonKey(a.concept, a.action, a.input)

\* no record of flow f's log is of the operation and input of the key
Unrecorded(f, key) ==
    f \in DOMAIN flow_log =>
       \A n \in 1..Len(flow_log[f]) :
          CanonKey(flow_log[f][n].concept, flow_log[f][n].action,
                   flow_log[f][n].input) # key

\* a key of flow f's emitted-set whose effect left no record in the flow's
\* log and is not being invoked by any thread
KeyWithoutRecord(f, key) ==
    /\ f \in DOMAIN emitted /\ key \in emitted[f]
    /\ Unrecorded(f, key)
    /\ \A a \in Activations : ~(a.flow = f /\ KeyOf(a) = key)

\* C27: the key of an effect is added to the flow's emitted-set before the
\* effect is dispatched and stays there when the dispatch fails: the set
\* holds a key for which no record exists, every set only grows, and the
\* effect is never invoked again in that flow
FailedEffectKeyKept ==
    /\ [][\A t \in Threads : NestedDispatchFails(t) =>
             /\ emitted' = emitted /\ flow_log' = flow_log
             /\ KeyOf(Top(t)) \in emitted[Top(t).flow]
             /\ Unrecorded(Top(t).flow, KeyOf(Top(t)))]_vars
    /\ [][\A f \in DOMAIN emitted :
             f \in DOMAIN emitted' /\ emitted[f] \subseteq emitted'[f]]_vars
    /\ [][\A t \in Threads : EmitStep(t) /\ KeyAtEmit(t) \in emitted[Top(t).flow]
             => Len(stack'[t]) <= Len(stack[t]) /\ fired' = fired]_vars
    /\ [](\A fk \in DOMAIN fired : fired[fk] <= 1)

\* an effect's dispatch failed in a flow, and a later evaluation of the same
\* flow produced the effect again and skipped it: its key is in the set,
\* was invoked once, and no record of it exists
FailedEffectSkippedLater ==
    \E t, u \in Threads :
        /\ t # u /\ result[t].status = "raised" /\ result[t].depth >= 2
        /\ ~Busy(t) /\ Busy(u) /\ stack[u][1].flow = result[t].flow
        /\ LET b == stack[u][1]
           IN \E n \in 1..Len(b.evs) :
                 /\ b.evs[n].fire /\ b.evs[n].invoked = << >>
                 /\ n = Len(b.evs) => b.pending = << >> /\ b.pc # "wait"
                 /\ \E j \in 1..Len(syncs[b.evs[n].rule].then) :
                       LET e == ThenOf(syncs[b.evs[n].rule], b.evs[n].post)[j]
                           key == CanonKey(e.concept, e.action, e.params)
                       IN /\ KeyWithoutRecord(b.flow, key)
                          /\ fired[<<b.flow, key>>] = 1

\* the snapshot of an activation is the beginning of its flow's log
SnapshotIsPrefix(a) ==
    a.snap # << >> =>
       /\ a.flow \in DOMAIN flow_log
       /\ Len(a.snap) <= Len(flow_log[a.flow])
       /\ \A n \in 1..Len(a.snap) : a.snap[n] = flow_log[a.flow][n]

\* every pattern a rule of the pass tested looked at the most recent record
\* of its provider and operation in the snapshot, or found none there
MatchedInSnapshot(a) ==
    \A e \in 1..Len(a.evs) : \A p \in 1..Len(a.evs[e].used) :
        LET pat == syncs[a.evs[e].rule].when[p]
        IN a.evs[e].used[p] = Last(a.snap, pat.concept, pat.action)

\* thread t goes on in the pass it is in: it tests a rule, or an effect key,
\* or an invoke it made returns into the pass
SamePassStep(t) ==
    /\ Busy(t) /\ Busy(t)'
    /\ stack[t][1].pc \in {"rule", "emit", "wait"}
    /\ stack'[t][1].pc # "pass"
    /\ Len(stack'[t][1].evs) >= Len(stack[t][1].evs)

\* thread t copies the log for the next pass of its outermost evaluation
NewPassStep(t) ==
    /\ Busy(t) /\ Len(stack[t]) = 1 /\ stack[t][1].pc = "pass"
    /\ stack'[t] # stack[t]

\* C25: the frame of a pass is built once, from the log as it is when the
\* pass starts: every rule of the pass, also one tested after an earlier
\* rule's effect and its whole cascade appended records, is matched against
\* that snapshot; the newer records are seen from the next pass on
FrameBuiltOncePerPass ==
    /\ [](\A a \in Activations : SnapshotIsPrefix(a) /\ MatchedInSnapshot(a))
    /\ [][\A t \in Threads : SamePassStep(t) => stack'[t][1].snap = stack[t][1].snap]_vars
    /\ [][\A t \in Threads : NewPassStep(t) =>
             \/ ~Busy(t)'
             \/ stack'[t][1].snap = flow_log[stack[t][1].flow]]_vars

\* a pass in which the effect of a rule was invoked and has returned, and a
\* later rule was tested on a pattern whose most recent record in the log is
\* newer than the snapshot: the rule looked at an older record, or at none
LaterRuleSawSnapshotOnly ==
    \E a \in Activations : \E e, l \in 1..Len(a.evs) :
        /\ e < l /\ a.evs[e].invoked # << >>
        /\ \E p \in 1..Len(a.evs[l].used) :
              LET pat == syncs[a.evs[l].rule].when[p]
              IN /\ Last(flow_log[a.flow], pat.concept, pat.action) > Len(a.snap)
                 /\ a.evs[l].used[p] <= Len(a.snap)

\* the bindings a rule's patterns make, whatever the outcome: all are made
\* on top of those the rule found
OnlyBinds(ev) ==
    /\ DOMAIN ev.pre \subseteq DOMAIN ev.post
    /\ DOMAIN ev.post \subseteq DOMAIN ev.after

\* C28: within one pass all rules share one binding environment, which is
\* never reset between them: the first rule starts from the empty one, every
\* later rule starts from what the rule before left after its match and its
\* guard, whether that rule matched, failed on a later term or was vetoed,
\* and a fired rule's producer reads that environment
EnvironmentSharedInPass ==
    \A a \in Activations :
        /\ a.evs # << >> =>
              /\ a.evs[1].pre = EmptyDict
              /\ a.env = a.evs[Len(a.evs)].after
        /\ \A e \in 1..Len(a.evs) :
              /\ OnlyBinds(a.evs[e])
              /\ e > 1 => a.evs[e].pre = a.evs[e - 1].after
              /\ ~a.evs[e].ok => a.evs[e].after = a.evs[e].post

\* a pass in which the first rule bound k and then failed on its second
\* pattern, the guard of the second bound n and vetoed, and the producer of
\* the third read both: its first triple carries k (and was invoked by an
\* evaluation before), its second carries n and was invoked with it
LaterProducerReadEarlierBindings ==
    \E a \in Activations :
        /\ cfg = BindRun /\ Len(a.evs) = 3
        /\ ~a.evs[1].ok /\ "k" \in DOMAIN a.evs[1].post
        /\ a.evs[2].ok /\ ~a.evs[2].fire
        /\ "n" \notin DOMAIN a.evs[2].post /\ "n" \in DOMAIN a.evs[2].after
        /\ a.evs[3].fire /\ Len(a.evs[3].invoked) = 1
        /\ LET rec == flow_log[a.evs[3].invoked[1][1]][a.evs[3].invoked[1][2]]
               then == ThenOf(syncs[3], a.evs[3].pre)
           IN /\ then[1].params["frame"] = a.evs[1].post["k"]
              /\ then[2].params["frame"] = a.evs[2].after["n"]
              /\ rec.input = then[2].params

\* thread t may call Engine.query from outside a flow
MayQuery(t) ==
    /\ phase = "run" /\ ~Busy(t)
    /\ calls < CallBound(cfg) /\ (calls = 0 => t = "t1")

\* C29: a query, issued by a guard or from outside a flow, never takes the
\* engine lock and never waits for it: it runs in every state, also while
\* another thread holds the lock and is dispatching an action on the
\* provider the query reads
QueriesNotSerialized ==
    /\ [](\A t \in Threads :
             /\ (Busy(t) /\ Top(t).pc = "rule") => ENABLED EvalRule(t)
             /\ MayQuery(t) => ENABLED Query(t))
    /\ [][\A t \in Threads : (GuardStep(t) \/ QueryStep(t)) => lock' = lock]_vars

\* the provider and operation some thread is dispatching under the lock,
\* << >> when the lock is free
DispatchOf ==
    IF lock = NoThread THEN << >> ELSE <<Top(lock).concept, Top(lock).action>>

\* a thread holds the lock and is dispatching Counter.update, which stores
\* the count, and in this state another thread runs a guard that queries
\* the Counter for its count
GuardReadsDuringDispatch ==
    \E t \in Threads :
        /\ Busy(t) /\ Top(t).pc = "rule"
        /\ syncs[Top(t).i].where = "counterIsZero"
        /\ lock # NoThread /\ lock # t
        /\ DispatchOf = <<"Counter", "update">>
        /\ ENABLED EvalRule(t)

\* the provider and operation of every record of a log, in log order
OpsOf(log) == [n \in 1..Len(log) |-> <<log[n].concept, log[n].action>>]

\* the cascade of a detect tick (TickToDetect, AssociateAfterDetect,
\* RenderAfterAssociate with its two effects)
DetectCascade ==
    << <<"Ticker", "tick">>, <<"Detector", "detect">>, <<"Associator", "assign">>,
       <<"Renderer", "render">>, <<"Counter", "update">> >>

\* the invoke of a detect tick by thread t returns, no invoke of another
\* thread has run while it did, and the camera has a latest frame
DetectTickReturnsAlone(t) ==
    /\ ReturnStep(t) /\ t \notin overlapped
    /\ stack[t][1].concept = "Ticker" /\ stack[t][1].input["key"] = S("detect")
    /\ prov.latest # 0

\* C24: a flow started by a tick of key detect, with a latest frame in the
\* camera and no other thread running, ends with the log tick, detect,
\* assign, render, update, in this order and each once
DetectCascadeInOrder ==
    [][\A t \in Threads :
          DetectTickReturnsAlone(t) =>
             OpsOf(flow_log'[result'[t].flow]) = DetectCascade]_vars

\* a detect tick that ran alone has returned and its flow holds the five
\* records of the cascade, the frame detected being one the camera holds
DetectCascadeDone ==
    \E t \in Threads :
        /\ TickReturned(t, "detect") /\ t \notin overlapped
        /\ OpsOf(flow_log[result[t].flow]) = DetectCascade
        /\ flow_log[result[t].flow][2].input["frame"] = Uuid("frame", prov.latest)
        /\ flow_log[result[t].flow][5].input["frame"] = Uuid("frame", prov.latest)

\* record n of flow f is a Camera.capture whose output carries a frame
CapturedFrame(f, n) ==
    /\ flow_log[f][n].concept = "Camera" /\ flow_log[f][n].action = "capture"
    /\ "frame" \in DOMAIN flow_log[f][n].output
    /\ flow_log[f][n].output["frame"] # NoneV

\* flow f has a record of Detector.detect on that frame
DetectedIn(f, frame) ==
    \E m \in 1..Len(flow_log[f]) :
        /\ flow_log[f][m].concept = "Detector" /\ flow_log[f][m].action = "detect"
        /\ flow_log[f][m].input["frame"] = frame

\* C23: a Camera.capture record whose output carries a frame leads to an
\* invoke of Detector.detect on that frame in the same flow: once the invoke
\* that started the flow has returned, the flow has that detect record
CaptureLeadsToDetect ==
    \A t \in Threads :
        (cfg \in AppRuns /\ result[t].status = "returned") =>
           \A n \in 1..Len(flow_log[result[t].flow]) :
              CapturedFrame(result[t].flow, n) =>
                 DetectedIn(result[t].flow, flow_log[result[t].flow][n].output["frame"])

\* the records of API.respond in flow f that carry the request handle h
RespondsTo(f, h) ==
    { n \in 1..Len(flow_log[f]) :
        /\ flow_log[f][n].concept = "API" /\ flow_log[f][n].action = "respond"
        /\ flow_log[f][n].input["request"] = h }

\* record n of flow f is an API.request
IsRequest(f, n) ==
    flow_log[f][n].concept = "API" /\ flow_log[f][n].action = "request"

\* C21: for every API.request record, API.respond is invoked at most once
\* with the handle of that request, and the request's callback is called at
\* most once, whatever other flows do to the camera's latest frame, the
\* latest render or the counter meanwhile
RespondOncePerRequest ==
    /\ \A f \in DOMAIN flow_log : \A n \in 1..Len(flow_log[f]) :
          IsRequest(f, n) =>
             Cardinality(RespondsTo(f, flow_log[f][n].output["request"])) <= 1
    /\ \A r \in 1..Len(prov.answered) : prov.answered[r] <= 1

\* the request record n of flow f has been answered: API.respond was invoked
\* with its handle and the stored callback was called
Answered(f, n) ==
    /\ RespondsTo(f, flow_log[f][n].output["request"]) # {}
    /\ prov.answered[flow_log[f][n].output["request"][2]] >= 1

RequestReturns(t) ==
    /\ ReturnStep(t)
    /\ stack[t][1].concept = "API" /\ stack[t][1].action = "request"

Min(a, b) == IF a < b THEN a ELSE b

\* phone hi, or person pi, is in one of the matches
PhoneMatched(hi) == \E i \in 1..Len(assign.matches) : assign.matches[i][1] = hi
PersonMatched(pi) == \E i \in 1..Len(assign.matches) : assign.matches[i][2] = pi

\* C30: the matches of Associator.assign are one-to-one: no phone index and
\* no person index occurs twice, every match is an accepted candidate pair,
\* no accepted pair is left with both its phone and its person unmatched,
\* and the count taken from the matching is at most the smaller of the
\* numbers of phones and of persons
AssignOneToOne ==
    /\ assign.pc \in {"loop", "done"} =>
          /\ \A i, j \in 1..Len(assign.matches) :
                i # j => /\ assign.matches[i][1] # assign.matches[j][1]
                         /\ assign.matches[i][2] # assign.matches[j][2]
          /\ \A i \in 1..Len(assign.matches) :
                /\ assign.matches[i] \in DOMAIN assign.metric
                /\ Accepted(assign.metric[assign.matches[i]])
          /\ Len(assign.matches) <= Min(Len(assign.phones), Len(assign.persons))
    /\ assign.pc = "done" =>
          /\ \A pair \in DOMAIN assign.metric :
                Accepted(assign.metric[pair]) =>
                   PhoneMatched(pair[1]) \/ PersonMatched(pair[2])
          /\ Len(assign.using) = Len(assign.matches)
          /\ assign.count = Len(assign.matches)
          /\ assign.count <= Min(Len(assign.phones), Len(assign.persons))

\* a call with two phones and two persons has ended with two matches, one
\* accepted pair at least having been passed over for a cheaper one
TwoMatchedOneSkipped ==
    /\ assign.pc = "done"
    /\ Len(assign.phones) = 2 /\ Len(assign.persons) = 2
    /\ Len(assign.cand) >= 3
    /\ assign.count = 2
====
